---- MODULE Spec2Model ----
(***************************************************************************)
(* Model of the PT INCA project-monitoring dashboard                       *)
(* (src/DASHBOARD INCA - STREAMLIT/app.py, src/dashboard_modular/*.py).    *)
(*                                                                         *)
(* Conventions of the model                                                *)
(*   - a number (Python float / int) is an exact rational <<n, d>>, d > 0, *)
(*     in lowest terms; NaN (pandas' missing number) is <<0, 0>>;          *)
(*     rounding of IEEE doubles is not modelled;                           *)
(*   - a timestamp is an integer count of ticks, TicksPerDay ticks a day,  *)
(*     tick 0 = midnight of day 0; a date cell is <<t>> or NaT = <<>>;     *)
(*   - a text is a sequence of one-character atoms; a missing text cell    *)
(*     is NA;                                                              *)
(*   - a table is [cols |-> set of column names, rows |-> sequence of      *)
(*     records]; a field whose column is not in cols is never read.        *)
(***************************************************************************)
EXTENDS Integers, Sequences, FiniteSets, TLC

VARIABLES uploaded_file, now, pc, original_df, view, ret, score_cache,
          session_state, script

vars == <<uploaded_file, now, pc, original_df, view, ret, score_cache,
          session_state, script>>

(***************************************************************************)
(* Bounds of the model                                                     *)
(***************************************************************************)
\* ticks per day: resolution of the wall clock (2 = midnight and noon)
TicksPerDay == 2

\* last day the wall clock reaches in the session specification
MaxDay == 3

(***************************************************************************)
(* Numbers                                                                 *)
(***************************************************************************)
Abs(x) == IF x < 0 THEN -x ELSE x

RECURSIVE GCD(_, _)
GCD(a, b) == IF b = 0 THEN a ELSE GCD(b, a % b)

NaN == <<0, 0>>

IsNaN(x) == x[2] = 0

\* the rational n/d in lowest terms; NaN when d = 0
Q(n, d) ==
    IF d = 0 THEN NaN
    ELSE LET g == GCD(Abs(n), Abs(d))
             s == IF d < 0 THEN -1 ELSE 1
         IN  <<(s * n) \div g, (s * d) \div g>>

I(n) == <<n, 1>>

RAdd(a, b) == IF IsNaN(a) \/ IsNaN(b) THEN NaN ELSE Q(a[1] * b[2] + b[1] * a[2], a[2] * b[2])
RSub(a, b) == IF IsNaN(a) \/ IsNaN(b) THEN NaN ELSE Q(a[1] * b[2] - b[1] * a[2], a[2] * b[2])
RMul(a, b) == IF IsNaN(a) \/ IsNaN(b) THEN NaN ELSE Q(a[1] * b[1], a[2] * b[2])
\* a / b, used only where the code has excluded b = 0
RDiv(a, b) == IF IsNaN(a) \/ IsNaN(b) THEN NaN ELSE Q(a[1] * b[2], a[2] * b[1])

\* comparisons: every comparison with NaN is false, as in Python
RLt(a, b) == ~IsNaN(a) /\ ~IsNaN(b) /\ a[1] * b[2] < b[1] * a[2]
RLe(a, b) == ~IsNaN(a) /\ ~IsNaN(b) /\ a[1] * b[2] <= b[1] * a[2]
RGt(a, b) == RLt(b, a)
RGe(a, b) == RLe(b, a)

\* Python's builtin min(a, b) / max(a, b): the first argument unless the
\* second is strictly smaller / larger (so min(100, NaN) = 100)
PyMin(a, b) == IF RLt(b, a) THEN b ELSE a
PyMax(a, b) == IF RGt(b, a) THEN b ELSE a

(***************************************************************************)
(* Dates                                                                   *)
(***************************************************************************)
NaT == <<>>

IsNaT(c) == c = NaT

\* a date cell that holds text no date can be parsed from (e.g. 'TBD')
BadDate == <<0, 0>>

\* pd.to_datetime(x, errors='coerce'): unparseable text becomes NaT
to_datetime_coerce(c) == IF c = BadDate THEN NaT ELSE c

\* Timestamp.date(): the day a tick falls in
DateOf(t) == t \div TicksPerDay

\* timedelta.days of a difference of ticks (floor, also when negative)
Days(delta) == delta \div TicksPerDay

\* midnight of day d, as a timestamp
Midnight(d) == d * TicksPerDay

(***************************************************************************)
(* Text                                                                    *)
(***************************************************************************)
\* the missing text cell (None / NaN in an object column)
NA == <<"<NA>">>

EmptyText == <<>>

LowerLetters ==
    <<"a", "b", "c", "d", "e", "f", "g", "h", "i", "j", "k", "l", "m",
      "n", "o", "p", "q", "r", "s", "t", "u", "v", "w", "x", "y", "z">>

UpperLetters ==
    <<"A", "B", "C", "D", "E", "F", "G", "H", "I", "J", "K", "L", "M",
      "N", "O", "P", "Q", "R", "S", "T", "U", "V", "W", "X", "Y", "Z">>

Digits == {"0", "1", "2", "3", "4", "5", "6", "7", "8", "9"}

\* characters matched by the regular expression \s and removed by strip()
Whitespace == {" ", "\t", "\n"}

Punctuation == {".", "-", "%", ",", "/"}

SeqRange(s) == {s[i] : i \in 1..Len(s)}

AsciiChars ==
    SeqRange(LowerLetters) \cup SeqRange(UpperLetters) \cup Digits
        \cup Whitespace \cup Punctuation

\* unicodedata.normalize('NFKD', c).encode('ascii', 'ignore') of one
\* character: an ASCII character is kept, a compatibility character is
\* decomposed and its non-ASCII parts (combining marks) are dropped, any
\* other non-ASCII character disappears
NFKDAscii(c) ==
    CASE c \in AsciiChars -> <<c>>
      [] c = "e_acute"    -> <<"e">>
      [] c = "E_acute"    -> <<"E">>
      [] c = "n_tilde"    -> <<"n">>
      [] c = "nbsp"       -> <<" ">>
      [] c = "fi_ligature" -> <<"f", "i">>
      [] OTHER            -> <<>>

RECURSIVE NormalizeAscii(_)
NormalizeAscii(s) ==
    IF s = <<>> THEN <<>> ELSE NFKDAscii(Head(s)) \o NormalizeAscii(Tail(s))

RECURSIVE LStrip(_)
LStrip(s) ==
    IF s # <<>> /\ Head(s) \in Whitespace THEN LStrip(Tail(s)) ELSE s

RECURSIVE RStrip(_)
RStrip(s) ==
    IF s # <<>> /\ s[Len(s)] \in Whitespace
    THEN RStrip(SubSeq(s, 1, Len(s) - 1)) ELSE s

\* str.strip()
Strip(s) == RStrip(LStrip(s))

\* re.sub(r'\s+', ' ', s)
RECURSIVE CollapseWhitespace(_)
CollapseWhitespace(s) ==
    IF s = <<>> THEN <<>>
    ELSE IF Head(s) \in Whitespace
         THEN <<" ">> \o CollapseWhitespace(LStrip(Tail(s)))
         ELSE <<Head(s)>> \o CollapseWhitespace(Tail(s))

UpperChar(c) ==
    IF \E i \in 1..Len(LowerLetters) : LowerLetters[i] = c
    THEN UpperLetters[CHOOSE i \in 1..Len(LowerLetters) : LowerLetters[i] = c]
    ELSE c

LowerChar(c) ==
    IF \E i \in 1..Len(UpperLetters) : UpperLetters[i] = c
    THEN LowerLetters[CHOOSE i \in 1..Len(UpperLetters) : UpperLetters[i] = c]
    ELSE c

\* str.upper() / str.lower()
Upper(s) == [i \in 1..Len(s) |-> UpperChar(s[i])]
Lower(s) == [i \in 1..Len(s) |-> LowerChar(s[i])]

clean_text_unstripped(x) ==
    IF x = NA THEN EmptyText
    ELSE Upper(CollapseWhitespace(NormalizeAscii(x)))

\* clean_text of app.py
clean_text(x) ==
    IF x = NA THEN EmptyText
    ELSE Upper(Strip(CollapseWhitespace(NormalizeAscii(x))))

\* clean_text of dashboard_modular/utils.py
utils_clean_text(x) ==
    IF x = NA THEN EmptyText
    ELSE LET normalized == NormalizeAscii(x)
             collapsed == CollapseWhitespace(normalized)
         IN  Upper(Strip(collapsed))

\* keyword in text (Python's substring test)
Contains(text, kw) ==
    \E i \in 0..(Len(text) - Len(kw)) : SubSeq(text, i + 1, i + Len(kw)) = kw

\* number of occurrences of the character c in s
CountChar(s, c) == Cardinality({i \in 1..Len(s) : s[i] = c})

SELESAI == <<"S", "E", "L", "E", "S", "A", "I">>
DALAM_PROSES == <<"D", "A", "L", "A", "M", " ", "P", "R", "O", "S", "E", "S">>
TUNDA == <<"T", "U", "N", "D", "A">>
BELUM_MULAI == <<"B", "E", "L", "U", "M", " ", "M", "U", "L", "A", "I">>
PROJECT_1_A == <<"P", "R", "O", "J", "E", "C", "T", " ", "1", " ", "A">>
PROJECT_1_B == <<"P", "R", "O", "J", "E", "C", "T", " ", "1", " ", "B">>

(***************************************************************************)
(* Tables                                                                  *)
(***************************************************************************)
\* the columns the dashboard documents as expected (app.py, lines 485-492)
RequiredColumns ==
    {"KONTRAK", "JENIS PEKERJAAN", "STATUS", "START", "PLAN END",
     "% COMPLETE", "BOBOT"}

\* the record field that holds a column's cell
\*   KONTRAK -> KONTRAK, JENIS PEKERJAAN -> JENIS, STATUS -> STATUS,
\*   START -> START, PLAN END -> PLAN_END, % COMPLETE -> COMPLETE,
\*   BOBOT -> BOBOT, AREA PEKERJAAN -> AREA

HasCol(df, c) == c \in df.cols

\* stable insertion of the index i into a list of indexes ordered by key,
\* missing keys (NaT) last
RECURSIVE InsertSorted(_, _, _)
InsertSorted(sorted, i, key) ==
    IF sorted = <<>> THEN <<i>>
    ELSE LET h == Head(sorted)
             before == /\ ~IsNaT(key[i])
                       /\ (IsNaT(key[h]) \/ key[i][1] < key[h][1])
         IN  IF before THEN <<i>> \o sorted
             ELSE <<h>> \o InsertSorted(Tail(sorted), i, key)

\* DataFrame.sort_values on one date column, restricted to the row
\* indexes idx (ascending): the indexes in sorted order
RECURSIVE SortIdx(_, _)
SortIdx(idx, key) ==
    IF idx = <<>> THEN <<>>
    ELSE LET n == Len(idx)
         IN  InsertSorted(SortIdx(SubSeq(idx, 1, n - 1), key), idx[n], key)

\* the members of a set of row indexes, ascending
RECURSIVE AscSeq(_)
AscSeq(S) ==
    IF S = {} THEN <<>>
    ELSE LET m == CHOOSE x \in S : \A y \in S : x <= y
         IN  <<m>> \o AscSeq(S \ {m})

(***************************************************************************)
(* calculate_planned_progress (app.py)                                     *)
(***************************************************************************)
\* the planned progress of one row as of the instant today; a missing
\* START or PLAN END column raises KeyError inside the try block and the
\* bare except returns 0
calculate_planned_progress_exact(row, cols, today) ==
    IF ~({"START", "PLAN END"} \subseteq cols) THEN I(0)
    ELSE LET start == to_datetime_coerce(row.START)
             end == to_datetime_coerce(row.PLAN_END)
         IN  IF IsNaT(start) \/ IsNaT(end) THEN I(0)
             ELSE IF today >= end[1] THEN I(100)
             ELSE IF today <= start[1] THEN I(0)
             ELSE PyMin(I(100),
                        PyMax(I(0), RMul(Q(today - start[1], end[1] - start[1]),
                                         I(100))))

calculate_planned_progress(row, cols, today) ==
    IF ~({"START", "PLAN END"} \subseteq cols) THEN I(0)
    ELSE LET start == to_datetime_coerce(row.START)
             end == to_datetime_coerce(row.PLAN_END)
         IN  IF IsNaT(start) \/ IsNaT(end) THEN I(0)
             ELSE IF today >= end[1] THEN I(100)
             ELSE IF today <= start[1] THEN I(0)
             ELSE LET total_days == Days(end[1] - start[1])
                      days_in == Days(today - start[1])
                  IN  IF total_days <= 0 THEN I(50)
                      ELSE PyMin(I(100),
                                 PyMax(I(0), RMul(Q(days_in, total_days), I(100))))

(***************************************************************************)
(* load_data (app.py)                                                      *)
(***************************************************************************)
\* the rescaling with a strict comparison: 1 is read as 1 percent
rescale_complete_strict(x) == IF RLt(x, I(1)) THEN RMul(x, I(100)) ELSE x

\* lambda x: x * 100 if x <= 1 else x
rescale_complete(x) == IF RLe(x, I(1)) THEN RMul(x, I(100)) ELSE x

\* len(str(x).split('.')) if re.match(r'^\d+(\.\d+)*', str(x)) else 1
infer_task_level(x) ==
    IF x # <<>> /\ Head(x) \in Digits THEN CountChar(x, ".") + 1 ELSE 1

\* the text columns load_data normalizes
clean_columns(df) ==
    [i \in 1..Len(df.rows) |->
        LET r == df.rows[i]
            r1 == IF HasCol(df, "KONTRAK")
                  THEN [r EXCEPT !.KONTRAK = clean_text(r.KONTRAK)] ELSE r
            r2 == IF HasCol(df, "JENIS PEKERJAAN")
                  THEN [r1 EXCEPT !.JENIS = clean_text(r1.JENIS)] ELSE r1
            r3 == IF HasCol(df, "STATUS")
                  THEN [r2 EXCEPT !.STATUS = clean_text(r2.STATUS)] ELSE r2
        IN  IF HasCol(df, "% COMPLETE")
            THEN [r3 EXCEPT !.COMPLETE = rescale_complete(r3.COMPLETE)] ELSE r3]

\* the synthetic identifier whatever the table supplies
task_id_synthetic(df, i) == i - 1

\* the TASK_ID of row i: the supplied one, or the synthetic task_<i-1>
task_id(df, i) ==
    IF HasCol(df, "TASK_ID") THEN df.rows[i].TASK_ID ELSE i - 1

\* df['KONTRAK'].unique(): the projects in order of first appearance
RECURSIVE unique_projects(_, _)
unique_projects(rows, n) ==
    IF n = 0 THEN <<>>
    ELSE LET u == unique_projects(rows, n - 1)
         IN  IF rows[n].KONTRAK \in SeqRange(u) THEN u
             ELSE Append(u, rows[n].KONTRAK)

chain_of_file_order(df, rows, project) ==
    LET project_tasks == AscSeq({i \in 1..Len(rows) : rows[i].KONTRAK = project})
    IN  [k \in 1..(Len(project_tasks) - 1) |->
            <<task_id(df, project_tasks[k + 1]), task_id(df, project_tasks[k])>>]

\* the (curr_id, prev_id) assignments of one project, in the order made
chain_of(df, rows, project) ==
    LET idx == AscSeq({i \in 1..Len(rows) : rows[i].KONTRAK = project})
        project_tasks == SortIdx(idx, [i \in 1..Len(rows) |-> rows[i].START])
    IN  [k \in 1..(Len(project_tasks) - 1) |->
            <<task_id(df, project_tasks[k + 1]), task_id(df, project_tasks[k])>>]

RECURSIVE all_chains(_, _, _)
all_chains(df, rows, projects) ==
    IF projects = <<>> THEN <<>>
    ELSE chain_of(df, rows, Head(projects)) \o all_chains(df, rows, Tail(projects))

\* PREDECESSORS of the row with identifier id after all assignments
\* df.loc[df['TASK_ID'] == curr_id, 'PREDECESSORS'] = prev_id: the last
\* assignment to id wins; <<>> is the empty string
predecessor_of(assignments, id) ==
    LET hits == {k \in 1..Len(assignments) : assignments[k][1] = id}
    IN  IF hits = {} THEN <<>>
        ELSE <<assignments[CHOOSE k \in hits : \A j \in hits : j <= k][2]>>

\* the sheet load_data reads: sheet_name="BASE DATA (wajib update)"
BaseDataSheet == "BASE DATA (wajib update)"

\* the exception that ends load_data, "none" when it returns:
\*   - pd.read_excel raises ValueError when the workbook has no sheet of
\*     the expected name;
\*   - pd.to_datetime without errors='coerce' (DURATION) raises ValueError
\*     on a date cell it cannot parse;
\*   - sort_values('START') raises KeyError when the table has a KONTRAK
\*     column, no PREDECESSORS column and no START column, and TypeError
\*     when a project's START cells mix text and timestamps
load_error(file) ==
    LET n == Len(file.rows)
        dated == {"START", "PLAN END"} \subseteq file.cols
        chained == HasCol(file, "KONTRAK") /\ ~HasCol(file, "PREDECESSORS")
        mixed == \E i, j \in 1..n :
                    /\ clean_text(file.rows[i].KONTRAK) = clean_text(file.rows[j].KONTRAK)
                    /\ file.rows[i].START = BadDate
                    /\ file.rows[j].START # BadDate /\ ~IsNaT(file.rows[j].START)
    IN  IF file.sheet # BaseDataSheet THEN "ValueError"
        ELSE IF /\ dated /\ ~HasCol(file, "IS_MILESTONE")
                /\ \E i \in 1..n : BadDate \in {file.rows[i].START, file.rows[i].PLAN_END}
        THEN "ValueError"
        ELSE IF chained /\ ~HasCol(file, "START") /\ n >= 1 THEN "KeyError"
        ELSE IF chained /\ HasCol(file, "START") /\ mixed THEN "TypeError"
        ELSE "none"

load_raises(file) == load_error(file) # "none"

derived_columns(file) ==
    {"TASK_ID", "TASK_LEVEL", "IS_MILESTONE", "PREDECESSORS"}
        \cup (IF HasCol(file, "IS_MILESTONE") \/ ~({"START", "PLAN END"} \subseteq file.cols)
              THEN {} ELSE {"DURATION"})
        \cup (IF HasCol(file, "% COMPLETE") THEN {"PLAN_PROGRESS"} ELSE {})

\* the enriched table load_data returns for the uploaded table file when
\* read at the instant today (defined when load_raises(file) is false)
enriched(file, today) ==
    LET rows == clean_columns(file)
        n == Len(rows)
        assignments ==
            IF ~HasCol(file, "PREDECESSORS") /\ HasCol(file, "KONTRAK")
            THEN all_chains(file, rows, unique_projects(rows, n))
            ELSE <<>>
        dated == {"START", "PLAN END"} \subseteq file.cols
        duration(r) ==
            IF /\ dated /\ ~HasCol(file, "IS_MILESTONE")
               /\ ~IsNaT(r.START) /\ ~IsNaT(r.PLAN_END)
            THEN I(Days(r.PLAN_END[1] - r.START[1])) ELSE NaN
    IN  [cols |-> file.cols \cup derived_columns(file),
         rows |-> [i \in 1..n |->
            LET r == rows[i]
            IN  [KONTRAK |-> r.KONTRAK,
                 JENIS |-> r.JENIS,
                 STATUS |-> r.STATUS,
                 START |-> r.START,
                 PLAN_END |-> r.PLAN_END,
                 COMPLETE |-> r.COMPLETE,
                 BOBOT |-> r.BOBOT,
                 AREA |-> r.AREA,
                 TASK_ID |-> task_id(file, i),
                 TASK_LEVEL |->
                    IF HasCol(file, "TASK_LEVEL") THEN r.TASK_LEVEL
                    ELSE IF HasCol(file, "JENIS PEKERJAAN")
                         THEN infer_task_level(r.JENIS) ELSE 1,
                 DURATION |-> duration(r),
                 IS_MILESTONE |->
                    IF HasCol(file, "IS_MILESTONE") THEN r.IS_MILESTONE
                    ELSE RLe(duration(r), I(1)),
                 PREDECESSORS |->
                    IF HasCol(file, "PREDECESSORS") THEN r.PREDECESSORS
                    ELSE predecessor_of(assignments, task_id(file, i)),
                 PLAN_PROGRESS |->
                    IF HasCol(file, "PLAN_PROGRESS") THEN r.PLAN_PROGRESS
                    ELSE IF HasCol(file, "% COMPLETE")
                         THEN calculate_planned_progress(r, file.cols, today)
                         ELSE I(0)]]]

\* load_data: the enriched table, or the exception that ends the load
load_data(file, today) ==
    IF load_raises(file)
    THEN [ok |-> FALSE, error |-> load_error(file),
          missing |-> IF load_error(file) = "KeyError" THEN {"START"} ELSE {}]
    ELSE [ok |-> TRUE, df |-> enriched(file, today)]

(***************************************************************************)
(* calculate_priority_score (app.py)                                       *)
(***************************************************************************)
\* status_mapping.get(row['STATUS'], 30)
status_factor_unmapped(status) == 30

status_factor(status) ==
    CASE status = TUNDA        -> 80
      [] status = DALAM_PROSES -> 60
      [] status = BELUM_MULAI  -> 40
      [] status = SELESAI      -> 0
      [] OTHER                 -> 30

\* days_left and the deadline factor derived from it
days_left(deadline, today) ==
    IF IsNaT(deadline) THEN 100
    ELSE LET d == Days(deadline[1] - today) IN IF d > 1 THEN d ELSE 1

deadline_factor(dl) ==
    IF dl < 0 THEN I(100) ELSE PyMin(I(100), Q(100, dl))

\* the score of one row as of the instant today; a missing PLAN END, BOBOT,
\* STATUS or % COMPLETE column raises KeyError inside the try block and the
\* handler returns 50
calculate_priority_score(row, cols, today) ==
    IF ~({"PLAN END", "BOBOT", "STATUS", "% COMPLETE"} \subseteq cols) THEN I(50)
    ELSE LET dl == days_left(to_datetime_coerce(row.PLAN_END), today)
             weight_factor == RMul(row.BOBOT, I(10))
             incomplete_factor == RSub(I(100), row.COMPLETE)
             score ==
                RAdd(RAdd(RAdd(RMul(deadline_factor(dl), Q(4, 10)),
                               RMul(weight_factor, Q(3, 10))),
                          RMul(I(status_factor(row.STATUS)), Q(2, 10))),
                     RMul(incomplete_factor, Q(1, 10)))
         IN  PyMin(I(100), score)

(***************************************************************************)
(* Export (app.py)                                                         *)
(***************************************************************************)
\* a text cell written by to_excel and read back by read_excel: the empty
\* string is written as an empty cell and read back as missing
excel_text(x) == IF x = EmptyText THEN NA ELSE x

\* the workbook behind the "Download Excel" link, as read_excel sees it:
\* one sheet 'Sheet1' with every column of the exported table (numbers,
\* dates and flags are kept; <<>> in PREDECESSORS stands for the empty
\* string and for the missing cell it is read back as)
get_excel_download_link(df) ==
    [sheet |-> "Sheet1",
     cols |-> df.cols,
     rows |-> [i \in 1..Len(df.rows) |->
                [df.rows[i] EXCEPT !.KONTRAK = excel_text(@),
                                   !.JENIS = excel_text(@),
                                   !.STATUS = excel_text(@)]]]

(***************************************************************************)
(* Series arithmetic (pandas)                                              *)
(***************************************************************************)
\* Series.sum(): missing values are skipped, the empty sum is 0
RECURSIVE SumSkipNa(_)
SumSkipNa(s) ==
    IF s = <<>> THEN I(0)
    ELSE IF IsNaN(Head(s)) THEN SumSkipNa(Tail(s))
         ELSE RAdd(Head(s), SumSkipNa(Tail(s)))

\* Series.mean(): missing values are skipped, NaN when nothing is left
MeanSkipNa(s) ==
    LET k == Cardinality({i \in 1..Len(s) : ~IsNaN(s[i])})
    IN  IF k = 0 THEN NaN ELSE RDiv(SumSkipNa(s), I(k))

\* (x['% COMPLETE'] * x['BOBOT']).sum() / x['BOBOT'].sum()
\*     if x['BOBOT'].sum() > 0 else x['% COMPLETE'].mean()
\* over the rows idx (a sequence of row indexes)
group_progress(df, idx) ==
    LET complete == [k \in 1..Len(idx) |-> df.rows[idx[k]].COMPLETE]
        bobot == [k \in 1..Len(idx) |-> df.rows[idx[k]].BOBOT]
        product == [k \in 1..Len(idx) |-> RMul(complete[k], bobot[k])]
    IN  IF HasCol(df, "BOBOT")
        THEN IF RGt(SumSkipNa(bobot), I(0))
             THEN RDiv(SumSkipNa(product), SumSkipNa(bobot))
             ELSE MeanSkipNa(complete)
        ELSE MeanSkipNa(complete)

(***************************************************************************)
(* Zone aggregation (map_zones.py)                                         *)
(***************************************************************************)
\* the keys of ZONE_TO_ID_MAP, in dictionary order
ZONE_TO_ID_MAP ==
    << <<"B", "L", "O", "C", "K", "-", "1", "C">>,
       <<"B", "L", "O", "C", "K", "-", "2", "C">>,
       <<"F", "A", "C", "I", "L", "I", "T", "Y", " ", "A", "R", "E", "A">>,
       <<"G", "R", "E", "E", "N", " ", "A", "R", "E", "A">>,
       <<"P", "O", "N", "D", " ", "A", "R", "E", "A">>,
       <<"P", "R", "I", "V", "A", "T", "E", " ", "A", "R", "E", "A">> >>

\* zone_keywords: the keyword list of each zone, in the same order
zone_keywords ==
    << << <<"b", "l", "o", "c", "k", " ", "1", "c">>,
          <<"b", "l", "o", "c", "k", "-", "1", "c">>,
          <<"b", "l", "o", "c", "k", "1", "c">>,
          <<"b", "l", "o", "k", " ", "1", "c">> >>,
       << <<"b", "l", "o", "c", "k", " ", "2", "c">>,
          <<"b", "l", "o", "c", "k", "-", "2", "c">>,
          <<"b", "l", "o", "c", "k", "2", "c">>,
          <<"b", "l", "o", "k", " ", "2", "c">> >>,
       << <<"f", "a", "c", "i", "l", "i", "t", "y">>,
          <<"f", "a", "s", "i", "l", "i", "t", "a", "s">>,
          <<"k", "a", "n", "t", "o", "r">>,
          <<"o", "f", "f", "i", "c", "e">> >>,
       << <<"g", "r", "e", "e", "n">>,
          <<"t", "a", "m", "a", "n">>,
          <<"g", "a", "r", "d", "e", "n">>,
          <<"l", "a", "n", "d", "s", "c", "a", "p", "e">> >>,
       << <<"p", "o", "n", "d">>,
          <<"k", "o", "l", "a", "m">>,
          <<"w", "a", "t", "e", "r">>,
          <<"a", "i", "r">> >>,
       << <<"p", "r", "i", "v", "a", "t", "e">>,
          <<"p", "r", "i", "b", "a", "d", "i">>,
          <<"h", "o", "u", "s", "i", "n", "g">>,
          <<"p", "e", "r", "u", "m", "a", "h", "a", "n">> >> >>

UNKNOWN == <<"U", "N", "K", "N", "O", "W", "N">>

KnownZones == SeqRange(ZONE_TO_ID_MAP)

\* map_to_zone: the first zone one of whose keywords occurs in the
\* lower-cased description, UNKNOWN when there is none or the cell is
\* not a string
map_to_zone(task_desc) ==
    IF task_desc = NA THEN UNKNOWN
    ELSE LET task_lower == Lower(task_desc)
             hit(z) == \E k \in 1..Len(zone_keywords[z]) :
                            Contains(task_lower, zone_keywords[z][k])
             hits == {z \in 1..Len(ZONE_TO_ID_MAP) : hit(z)}
         IN  IF hits = {} THEN UNKNOWN
             ELSE ZONE_TO_ID_MAP[CHOOSE z \in hits : \A y \in hits : z <= y]

\* extract_zone_progress_from_tasks: the mapping zone -> progress
extract_zone_progress_from_tasks(df) ==
    LET n == Len(df.rows)
        MAPPED_ZONE == [i \in 1..n |-> map_to_zone(df.rows[i].JENIS)]
        groups == {MAPPED_ZONE[i] : i \in 1..n} \ {UNKNOWN}
        grouped == [z \in groups |->
                        group_progress(df, AscSeq({i \in 1..n : MAPPED_ZONE[i] = z}))]
    IN  [z \in groups \cup KnownZones |->
            IF z \in groups THEN grouped[z] ELSE I(0)]

\* extract_zone_progress: the mapping zone -> progress; groupby leaves out
\* the rows whose area cell is missing
extract_zone_progress(df) ==
    IF ~HasCol(df, "AREA PEKERJAAN") THEN extract_zone_progress_from_tasks(df)
    ELSE LET n == Len(df.rows)
             groups == {df.rows[i].AREA : i \in 1..n} \ {NA}
         IN  [z \in groups |->
                group_progress(df, AscSeq({i \in 1..n : df.rows[i].AREA = z}))]

(***************************************************************************)
(* main (app.py): KPI cards and weighted progress                          *)
(***************************************************************************)
\* the last day of the Upcoming Deadlines window: between(0, 7)
UpcomingDays == 7

\* (PLAN END - datetime.today()).dt.days.between(0, 7).sum()
upcoming(df, today) ==
    Cardinality({i \in 1..Len(df.rows) :
        LET end == to_datetime_coerce(df.rows[i].PLAN_END)
        IN  /\ ~IsNaT(end)
            /\ Days(end[1] - today) >= 0
            /\ Days(end[1] - today) <= UpcomingDays})

count_status(df, statuses) ==
    Cardinality({i \in 1..Len(df.rows) : df.rows[i].STATUS \in statuses})

\* the unweighted mean of the project's completion values
weighted_progress_mean(df, project) ==
    LET idx == AscSeq({i \in 1..Len(df.rows) : df.rows[i].KONTRAK = project})
    IN  IF idx = <<>> THEN <<>>
        ELSE <<MeanSkipNa([k \in 1..Len(idx) |-> df.rows[idx[k]].COMPLETE])>>

\* the weighted progress of one project: <<>> when the project has no
\* rows ("No data available"), else <<progress>>
weighted_progress(df, project) ==
    LET idx == AscSeq({i \in 1..Len(df.rows) : df.rows[i].KONTRAK = project})
        bobot == [k \in 1..Len(idx) |-> df.rows[idx[k]].BOBOT]
        product == [k \in 1..Len(idx) |->
                        RMul(df.rows[idx[k]].BOBOT, df.rows[idx[k]].COMPLETE)]
        weighted == SumSkipNa(product)
        total_bobot == SumSkipNa(bobot)
    IN  IF idx = <<>> THEN <<>>
        ELSE <<IF total_bobot # I(0) THEN RDiv(weighted, total_bobot) ELSE I(0)>>

\* int(x): truncation toward zero
PyInt(x) == IF x[1] >= 0 THEN x[1] \div x[2] ELSE -((-x[1]) \div x[2])

\* st.progress(int(x)) raises unless 0 <= int(x) <= 100
progress_bar_ok(x) == ~IsNaN(x) /\ PyInt(x) >= 0 /\ PyInt(x) <= 100

(***************************************************************************)
(* main (app.py): timeline table and S-curve                               *)
(***************************************************************************)
\* the days between two S-curve periods: timedelta(days=7)
WeekDays == 7

\* timeline_df without the restriction by the timeline project filter
timeline_rows_all_projects(df, active_project_filter) ==
    LET idx == AscSeq({i \in 1..Len(df.rows) :
                   ~IsNaT(df.rows[i].START) /\ ~IsNaT(df.rows[i].PLAN_END)})
    IN  [k \in 1..Len(idx) |->
            LET r == df.rows[idx[k]]
                numeric == IF IsNaN(r.COMPLETE) THEN I(0) ELSE r.COMPLETE
            IN  [r EXCEPT !.COMPLETE = rescale_complete(numeric)]]

\* timeline_df: the rows of original_df with both dates, restricted by
\* the timeline project filter, % COMPLETE made numeric and rescaled again
timeline_rows(df, active_project_filter) ==
    LET keep(r) ==
            /\ ~IsNaT(r.START) /\ ~IsNaT(r.PLAN_END)
            /\ (active_project_filter = "p1a" => r.KONTRAK = PROJECT_1_A)
            /\ (active_project_filter = "p1b" => r.KONTRAK = PROJECT_1_B)
        idx == AscSeq({i \in 1..Len(df.rows) : keep(df.rows[i])})
    IN  [k \in 1..Len(idx) |->
            LET r == df.rows[idx[k]]
                numeric == IF IsNaN(r.COMPLETE) THEN I(0) ELSE r.COMPLETE
            IN  [r EXCEPT !.COMPLETE = rescale_complete(numeric)]]

\* the largest value of a non-empty sequence of numbers
RECURSIVE SeqMax(_)
SeqMax(s) ==
    IF Len(s) = 1 THEN s[1]
    ELSE LET m == SeqMax(Tail(s)) IN IF RGt(s[1], m) THEN s[1] ELSE m

\* if timeline_df['% COMPLETE'].max() > 1.5: divide the column by 100
scurve_complete(tl) ==
    LET col == [k \in 1..Len(tl) |-> tl[k].COMPLETE]
    IN  IF tl # <<>> /\ RGt(SeqMax(col), Q(3, 2))
        THEN [k \in 1..Len(tl) |-> RDiv(col[k], I(100))]
        ELSE col

\* the weekly periods from min_date while current <= max_date
RECURSIVE periods_from(_, _)
periods_from(current, max_date) ==
    IF current <= max_date
    THEN <<current>> \o periods_from(current + WeekDays, max_date)
    ELSE <<>>

min_date(tl) ==
    DateOf(CHOOSE t \in {tl[k].START[1] : k \in 1..Len(tl)} :
                \A k \in 1..Len(tl) : t <= tl[k].START[1])

max_date(tl) ==
    DateOf(CHOOSE t \in {tl[k].PLAN_END[1] : k \in 1..Len(tl)} :
                \A k \in 1..Len(tl) : t >= tl[k].PLAN_END[1])

time_periods(tl) == periods_from(min_date(tl), max_date(tl))

\* the rows that count at a period: started by then, weight present and
\* positive (a table without BOBOT column gives weight 0)
counted_rows(tl, has_bobot, period) ==
    AscSeq({k \in 1..Len(tl) :
        /\ DateOf(tl[k].START[1]) <= period
        /\ has_bobot
        /\ RGt(tl[k].BOBOT, I(0))})

task_planned(r, period) ==
    IF period >= DateOf(r.PLAN_END[1]) THEN I(1)
    ELSE IF period < DateOf(r.START[1]) THEN I(0)
    ELSE LET total_days == Days(r.PLAN_END[1] - r.START[1])
             days_passed == period - DateOf(r.START[1])
         IN  IF total_days > 0 THEN Q(days_passed, total_days) ELSE I(1)

task_actual(r, complete, period, today_date) ==
    IF period >= today_date THEN complete
    ELSE IF period < DateOf(r.START[1]) THEN I(0)
    ELSE LET total_days == today_date - DateOf(r.START[1])
             days_passed == period - DateOf(r.START[1])
         IN  PyMin(complete,
                   IF total_days > 0
                   THEN RMul(Q(days_passed, total_days), complete) ELSE I(0))

\* the raw (Planned, Actual) pair of one period
period_progress(tl, has_bobot, period, today_date) ==
    LET complete == scurve_complete(tl)
        idx == counted_rows(tl, has_bobot, period)
        total_weight == SumSkipNa([k \in 1..Len(idx) |-> tl[idx[k]].BOBOT])
        planned == SumSkipNa([k \in 1..Len(idx) |->
                        RMul(task_planned(tl[idx[k]], period), tl[idx[k]].BOBOT)])
        actual == SumSkipNa([k \in 1..Len(idx) |->
                        RMul(task_actual(tl[idx[k]], complete[idx[k]], period, today_date),
                             tl[idx[k]].BOBOT)])
    IN  IF RGt(total_weight, I(0))
        THEN [Date |-> period,
              Planned |-> RMul(RDiv(planned, total_weight), I(100)),
              Actual |-> RMul(RDiv(actual, total_weight), I(100))]
        ELSE [Date |-> period, Planned |-> I(0), Actual |-> I(0)]

\* progress_data: one raw sample per period
progress_data(tl, has_bobot, today_date) ==
    LET periods == time_periods(tl)
    IN  [k \in 1..Len(periods) |->
            period_progress(tl, has_bobot, periods[k], today_date)]

\* the series left as sampled (no running maximum)
cummax_raw(s) == s

\* Series.cummax() of a sequence of numbers
RECURSIVE cummax(_)
cummax(s) ==
    IF Len(s) <= 1 THEN s
    ELSE LET front == cummax(SubSeq(s, 1, Len(s) - 1))
             last == front[Len(front)]
         IN  Append(front, IF RGt(s[Len(s)], last) THEN s[Len(s)] ELSE last)

\* progress_df after "Ensure cumulative max": the published S-curve
progress_df(tl, has_bobot, today_date) ==
    LET raw == progress_data(tl, has_bobot, today_date)
        planned == cummax([k \in 1..Len(raw) |-> raw[k].Planned])
        actual == cummax([k \in 1..Len(raw) |-> raw[k].Actual])
    IN  [k \in 1..Len(raw) |->
            [Date |-> raw[k].Date, Planned |-> planned[k], Actual |-> actual[k]]]

\* the metrics read at the earliest period that is not after today
earned_value_earliest(curve, today_date) ==
    LET latest_periods == {k \in 1..Len(curve) : curve[k].Date <= today_date}
    IN  IF latest_periods # {}
        THEN LET k == CHOOSE j \in latest_periods :
                        \A i \in latest_periods : curve[j].Date <= curve[i].Date
                 current_planned == curve[k].Planned
                 current_actual == curve[k].Actual
             IN  [current_planned |-> current_planned,
                  current_actual |-> current_actual,
                  spi |-> IF RGt(current_planned, I(0))
                          THEN RDiv(current_actual, current_planned) ELSE I(0)]
        ELSE [current_planned |-> I(0), current_actual |-> I(0), spi |-> I(0)]

\* Earned Value Metrics: planned, actual and SPI at the latest period that
\* is not after today
earned_value(curve, today_date) ==
    LET latest_periods == {k \in 1..Len(curve) : curve[k].Date <= today_date}
    IN  IF latest_periods # {}
        THEN LET k == CHOOSE j \in latest_periods :
                        \A i \in latest_periods : curve[i].Date <= curve[j].Date
                 current_planned == curve[k].Planned
                 current_actual == curve[k].Actual
             IN  [current_planned |-> current_planned,
                  current_actual |-> current_actual,
                  spi |-> IF RGt(current_planned, I(0))
                          THEN RDiv(current_actual, current_planned) ELSE I(0)]
        ELSE [current_planned |-> I(0), current_actual |-> I(0), spi |-> I(0)]

(***************************************************************************)
(* main (app.py): sidebar filters                                          *)
(***************************************************************************)
\* the first option of both select boxes
ALL == <<"A", "l", "l">>

\* df[col] of one row, for the columns the model filters by
cell(r, col) ==
    CASE col = "KONTRAK"        -> r.KONTRAK
      [] col = "STATUS"         -> r.STATUS
      [] col = "AREA PEKERJAAN" -> r.AREA
      [] col = "% COMPLETE"     -> r.COMPLETE

\* ['All'] + sorted(original_df[col].dropna().unique()), as a set
filter_values(df, col) ==
    {ALL} \cup ({cell(df.rows[i], col) : i \in 1..Len(df.rows)} \ {NA, NaN})

sidebar_filter_normalized(df, selected_kontrak, selected_filter_col, selected_filter_val) ==
    LET keep(r) ==
            /\ selected_kontrak # ALL => r.KONTRAK = selected_kontrak
            /\ selected_filter_val # ALL =>
                  IF selected_filter_col = "% COMPLETE"
                  THEN cell(r, selected_filter_col) = selected_filter_val
                  ELSE clean_text(cell(r, selected_filter_col)) =
                           clean_text(selected_filter_val)
    IN  [cols |-> df.cols, rows |-> SelectSeq(df.rows, keep)]

\* df after the two "if selected != 'All'" selections
sidebar_filter(df, selected_kontrak, selected_filter_col, selected_filter_val) ==
    LET by_kontrak(r) == r.KONTRAK = selected_kontrak
        by_value(r) == cell(r, selected_filter_col) = selected_filter_val
        df1 == IF selected_kontrak # ALL THEN SelectSeq(df.rows, by_kontrak)
               ELSE df.rows
        df2 == IF selected_filter_val # ALL THEN SelectSeq(df1, by_value) ELSE df1
    IN  [cols |-> df.cols, rows |-> df2]

(***************************************************************************)
(* main (app.py): overdue tasks and recommendations                        *)
(***************************************************************************)
\* late_df: the overdue rows, each with its LATE DAYS
late_tasks(df, today) ==
    LET end(r) == to_datetime_coerce(r.PLAN_END)
        late(r) == /\ ~IsNaT(end(r)) /\ end(r)[1] < today
                   /\ r.STATUS # SELESAI
        idx == AscSeq({i \in 1..Len(df.rows) : late(df.rows[i])})
    IN  [k \in 1..Len(idx) |->
            [row |-> idx[k],
             LATE_DAYS |-> Days(today - end(df.rows[idx[k]])[1])]]

\* active_tasks with PRIORITY_SCORE (before the sort by score)
\* calculate_priority_score under @st.cache_data: the cache is keyed by
\* the row alone, so a row scored before gets the score of that earlier
\* call, whatever datetime.today() is now
cached_priority_score(cache, row, cols, today) ==
    IF row \in DOMAIN cache THEN cache[row]
    ELSE calculate_priority_score(row, cols, today)

priority_scores(df, today, cache) ==
    LET idx == AscSeq({i \in 1..Len(df.rows) : df.rows[i].STATUS # SELESAI})
    IN  [k \in 1..Len(idx) |->
            [row |-> idx[k],
             PRIORITY_SCORE |-> cached_priority_score(cache, df.rows[idx[k]], df.cols, today)]]

\* the cache after the priority section scored the active rows of df
cache_after(cache, df, today) ==
    [r \in DOMAIN cache \cup {df.rows[i] : i \in {j \in 1..Len(df.rows) :
                                                  df.rows[j].STATUS # SELESAI}} |->
        cached_priority_score(cache, r, df.cols, today)]

(***************************************************************************)
(* main (app.py): one script run over the loaded table                     *)
(***************************************************************************)
\* The sections of main in the order they run.  An uncaught exception ends
\* the run, and the sections after it are not rendered:
\*   - st.progress(int(progress)) of a project's weighted progress raises
\*     when the value is outside 0..100;
\*   - the S-curve raises when timeline_df is empty (NaT.date()) or when no
\*     period is generated (max_date < min_date: no 'Date' column);
\*   - st.progress(int(row['% COMPLETE'])) of the Task Details tab raises
\*     when the value is outside 0..100.
\* The sidebar filters are at their default 'All'.
NotRendered == <<>>

\* str(x).split(' - ')[0] if ' - ' in str(x) else str(x)
extracted_sub_area(x) ==
    LET hits == {i \in 1..(Len(x) - 2) : SubSeq(x, i, i + 2) = <<" ", "-", " ">>}
    IN  IF hits = {} THEN x
        ELSE SubSeq(x, 1, (CHOOSE i \in hits : \A j \in hits : i <= j) - 1)

\* original_df after the "Progress by Sub-Area" part of the zone section:
\* without a 'SUB AREA PEKERJAAN' column the part assigns the column
\* EXTRACTED_SUB_AREA to original_df itself
sub_area_section(df) ==
    IF HasCol(df, "SUB AREA PEKERJAAN") \/ ~HasCol(df, "JENIS PEKERJAAN")
    THEN df
    ELSE [cols |-> df.cols \cup {"EXTRACTED_SUB_AREA"},
          rows |-> [i \in 1..Len(df.rows) |->
                     df.rows[i] @@
                     [EXTRACTED_SUB_AREA |-> extracted_sub_area(df.rows[i].JENIS)]]]

render(df, today, cache, active_project_filter) ==
    LET tl == timeline_rows(df, active_project_filter)
        has_bobot == HasCol(df, "BOBOT")
        progress == <<weighted_progress(df, PROJECT_1_A),
                      weighted_progress(df, PROJECT_1_B)>>
        progress_ok == \A p \in 1..2 :
                          progress[p] # <<>> => progress_bar_ok(progress[p][1])
        scurve_ok == progress_ok /\ tl # <<>> /\ time_periods(tl) # <<>>
        curve == progress_df(tl, has_bobot, DateOf(today))
        details_ok == scurve_ok /\ \A k \in 1..Len(tl) :
                          progress_bar_ok(scurve_complete(tl)[k])
    IN  [sections |-> {"kpi"}
            \cup (IF progress_ok THEN {"progress"} ELSE {})
            \cup (IF scurve_ok THEN {"scurve"} ELSE {})
            \cup (IF details_ok THEN {"details", "late", "priority", "zone"} ELSE {}),
         today |-> today,
         total_tasks |-> Len(df.rows),
         completed |-> count_status(df, {SELESAI}),
         upcoming |-> upcoming(df, today),
         ongoing |-> count_status(df, {DALAM_PROSES}),
         pending |-> count_status(df, {TUNDA, BELUM_MULAI}),
         progress |-> progress,
         progress_df |-> IF scurve_ok THEN curve ELSE NotRendered,
         earned |-> IF scurve_ok THEN <<earned_value(curve, DateOf(today))>>
                    ELSE NotRendered,
         late_df |-> IF details_ok THEN late_tasks(df, today) ELSE NotRendered,
         priority |-> IF details_ok THEN priority_scores(df, today, cache) ELSE NotRendered,
         zone |-> IF details_ok THEN <<extract_zone_progress(df)>> ELSE NotRendered,
         original_df |-> IF details_ok THEN sub_area_section(df) ELSE df,
         timeline_df |-> tl,
         timeline_complete |-> [k \in 1..Len(tl) |-> tl[k].COMPLETE],
         scurve_complete |-> IF scurve_ok THEN scurve_complete(tl) ELSE NotRendered,
         details_complete |-> IF details_ok THEN scurve_complete(tl) ELSE NotRendered]

(***************************************************************************)
(* State machine                                                           *)
(***************************************************************************)
\* no table loaded yet / nothing rendered yet / no function result yet
NoDf == <<>>
NoView == <<>>
NoCache == <<>>
NoRet == <<>>

\* last tick of the wall clock
MaxTick == Midnight(MaxDay) + TicksPerDay - 1

\* the user table of both entry points (auth.py and app.py hold the same
\* three entries)
USERS ==
    [admin |-> [password |-> "admin123", role |-> "admin"],
     john  |-> [password |-> "john123", role |-> "viewer"],
     sarah |-> [password |-> "sarahpass", role |-> "editor"]]

\* Python's None as the result of authenticate
None == "None"

\* the role of the user when the password is the user's, else None
authenticate_any_password(username, password) ==
    IF username \in DOMAIN USERS THEN USERS[username].role ELSE None

authenticate(username, password) ==
    IF username \in DOMAIN USERS /\ USERS[username].password = password
    THEN USERS[username].role
    ELSE None

\* st.session_state of a new session, and after clear()
EmptySession == [k \in {} |-> FALSE]

\* st.session_state of a session whose user logged in as admin
AdminSession == [logged_in |-> TRUE, user |-> "admin", role |-> "admin"]

\* One script run (pass).  Both entry points first set logged_in to False
\* when the key is absent and, while it is False, show the login form and
\* st.stop().  Past the gate dashboard_modular's Home.py shows its title;
\* app.py's main, with the file in the uploader, calls load_data (cached by
\* st.cache_data on the uploaded file, so a later run reuses the table of
\* the first) and renders its sections; the timeline section, entered when
\* the weighted-progress section before it did not raise, sets
\* active_project_filter to 'all' and button_clicked_this_run to False
\* when these keys are absent.
Run ==
    /\ pc \in {"start", "login", "rerun", "uploaded", "rendered"}
    /\ RequiredColumns \subseteq uploaded_file.cols
    /\ LET ss == IF "logged_in" \in DOMAIN session_state
                 THEN session_state
                 ELSE session_state @@ [logged_in |-> FALSE]
           flt == IF "active_project_filter" \in DOMAIN ss
                  THEN ss.active_project_filter
                  ELSE "all"
       IN  IF ~ss.logged_in
           THEN /\ session_state' = ss
                /\ view' = <<[sections |-> {"login"}]>>
                /\ pc' = "login"
                /\ UNCHANGED <<original_df, score_cache>>
           ELSE IF script = "modular"
           THEN /\ session_state' = ss
                /\ view' = <<[sections |-> {"home"}]>>
                /\ pc' = "rendered"
                /\ UNCHANGED <<original_df, score_cache>>
           ELSE /\ original_df' = IF original_df = NoDf
                                  THEN <<load_data(uploaded_file, now).df>>
                                  ELSE original_df
                /\ view' = <<render(original_df'[1], now, score_cache, flt)>>
                /\ score_cache' = IF "priority" \in view'[1].sections
                                  THEN cache_after(score_cache, original_df'[1], now)
                                  ELSE score_cache
                /\ session_state' =
                      IF "progress" \in view'[1].sections
                      THEN (ss @@ [active_project_filter |-> "all"])
                              @@ [button_clicked_this_run |-> FALSE]
                      ELSE ss
                /\ pc' = "rendered"
    /\ UNCHANGED <<uploaded_file, now, ret, script>>

\* The Login button is pressed with a username and a password typed into
\* the form: the pass shows the form, authenticates and, on success, sets
\* logged_in, user and role and asks for a rerun; on failure it shows an
\* error and stops.
Login ==
    /\ pc = "login"
    /\ \E username \in DOMAIN USERS \cup {"guest", ""},
          password \in {USERS[u].password : u \in DOMAIN USERS} \cup {"Admin123", ""} :
          LET role == authenticate(username, password)
          IN  /\ view' = <<[sections |-> {"login"}, username |-> username,
                            password |-> password, error |-> (role = None)]>>
              /\ session_state' =
                    IF role # None
                    THEN [logged_in |-> TRUE, user |-> username, role |-> role]
                            @@ session_state
                    ELSE session_state
              /\ pc' = IF role # None THEN "rerun" ELSE "login"
    /\ UNCHANGED <<uploaded_file, now, original_df, ret, score_cache, script>>

\* The sidebar's Logout button is pressed: auth.py clears the session
\* state, app.py sets logged_in to False; both ask for a rerun.
Logout ==
    /\ pc = "rendered"
    /\ session_state' = IF script = "modular"
                        THEN EmptySession
                        ELSE [session_state EXCEPT !.logged_in = FALSE]
    /\ pc' = "rerun"
    /\ UNCHANGED <<uploaded_file, now, original_df, view, ret, score_cache, script>>

\* The timeline filter button of f ('all', 'p1a' or 'p1b') is clicked: its
\* on_click callback (set_all_filter, set_p1a_filter, set_p1b_filter) runs
\* before the pass, and the pass asks for a rerun at the button.
set_filter(f) ==
    /\ pc = "rendered"
    /\ script = "app"
    /\ "progress" \in view[1].sections
    /\ session_state' = [active_project_filter |-> f,
                         button_clicked_this_run |-> TRUE] @@ session_state
    /\ pc' = "rerun"
    /\ UNCHANGED <<uploaded_file, now, original_df, view, ret, score_cache, script>>

\* time passes between two script runs
Tick ==
    /\ pc \in {"uploaded", "rendered"}
    /\ now < MaxTick
    /\ now' = now + 1
    /\ UNCHANGED <<uploaded_file, pc, original_df, view, ret, score_cache, session_state, script>>

\* load_data applied to the uploaded table
ApplyLoadData ==
    /\ pc = "call_load_data"
    /\ ret' = <<load_data(uploaded_file, now)>>
    /\ pc' = "returned"
    /\ UNCHANGED <<uploaded_file, now, original_df, view, score_cache, session_state, script>>

\* load, export of the loaded table, load of the export
ApplyRoundTrip ==
    /\ pc = "call_round_trip"
    /\ ~load_raises(uploaded_file)
    /\ original_df' = <<load_data(uploaded_file, now).df>>
    /\ ret' = <<[export |-> get_excel_download_link(original_df'[1]),
                 second |-> load_data(get_excel_download_link(original_df'[1]), now)]>>
    /\ pc' = "returned"
    /\ UNCHANGED <<uploaded_file, now, view, score_cache, session_state, script>>

\* both copies of clean_text applied to the project cell of the first row
ApplyCleanText ==
    /\ pc = "call_clean_text"
    /\ ret' = <<[app |-> clean_text(uploaded_file.rows[1].KONTRAK),
                 utils |-> utils_clean_text(uploaded_file.rows[1].KONTRAK)]>>
    /\ pc' = "returned"
    /\ UNCHANGED <<uploaded_file, now, original_df, view, score_cache, session_state, script>>

\* calculate_planned_progress applied to the first row of the table
ApplyPlannedProgress ==
    /\ pc = "call_planned_progress"
    /\ ret' = <<calculate_planned_progress(uploaded_file.rows[1], uploaded_file.cols, now)>>
    /\ pc' = "returned"
    /\ UNCHANGED <<uploaded_file, now, original_df, view, score_cache, session_state, script>>

\* calculate_priority_score applied to the first row of the loaded table
ApplyPriorityScore ==
    /\ pc = "call_priority_score"
    /\ ~load_raises(uploaded_file)
    /\ original_df' = <<load_data(uploaded_file, now).df>>
    /\ ret' = <<calculate_priority_score(original_df'[1].rows[1], original_df'[1].cols, now)>>
    /\ score_cache' = [r \in {original_df'[1].rows[1]} |-> ret'[1]]
    /\ pc' = "returned"
    /\ UNCHANGED <<uploaded_file, now, view, session_state, script>>

\* the sidebar selections of one pass, applied to the loaded table; the
\* filter column is one of STATUS, AREA PEKERJAAN and % COMPLETE
ApplySidebarFilter ==
    /\ pc = "call_sidebar_filter"
    /\ ~load_raises(uploaded_file)
    /\ original_df' = <<load_data(uploaded_file, now).df>>
    /\ \E selected_kontrak \in filter_values(original_df'[1], "KONTRAK"),
          selected_filter_col \in {"STATUS", "AREA PEKERJAAN", "% COMPLETE"} :
          \E selected_filter_val \in filter_values(original_df'[1], selected_filter_col) :
             ret' = <<[selected_kontrak |-> selected_kontrak,
                       selected_filter_col |-> selected_filter_col,
                       selected_filter_val |-> selected_filter_val,
                       df |-> sidebar_filter(original_df'[1], selected_kontrak,
                                             selected_filter_col, selected_filter_val)]>>
    /\ pc' = "returned"
    /\ UNCHANGED <<uploaded_file, now, view, score_cache, session_state, script>>

\* extract_zone_progress applied to the loaded table
ApplyZoneProgress ==
    /\ pc = "call_zone_progress"
    /\ ~load_raises(uploaded_file)
    /\ original_df' = <<load_data(uploaded_file, now).df>>
    /\ ret' = <<extract_zone_progress(original_df'[1])>>
    /\ pc' = "returned"
    /\ UNCHANGED <<uploaded_file, now, view, score_cache, session_state, script>>

(***************************************************************************)
(* Inputs                                                                  *)
(***************************************************************************)
\* most rows of an uploaded table
MaxRows == 2

\* most rows of a table in the weighted-progress specification
MaxProjectRows == 3

Row(k, j, s, st, en, c, b, a) ==
    [KONTRAK |-> k, JENIS |-> j, STATUS |-> s, START |-> st, PLAN_END |-> en,
     COMPLETE |-> c, BOBOT |-> b, AREA |-> a]

\* the tables of 1..n rows drawn from the set of rows R, with columns cols
Tables(cols, R, n) ==
    {[sheet |-> BaseDataSheet, cols |-> cols, rows |-> rs] :
        rs \in UNION {[1..k -> R] : k \in 1..n}}

\* the row r of a table that supplies the optional columns TASK_ID,
\* TASK_LEVEL, IS_MILESTONE and PREDECESSORS
WithExplicit(r, id, level, milestone, pred) ==
    [KONTRAK |-> r.KONTRAK, JENIS |-> r.JENIS, STATUS |-> r.STATUS,
     START |-> r.START, PLAN_END |-> r.PLAN_END, COMPLETE |-> r.COMPLETE,
     BOBOT |-> r.BOBOT, AREA |-> r.AREA,
     TASK_ID |-> id, TASK_LEVEL |-> level, IS_MILESTONE |-> milestone,
     PREDECESSORS |-> pred]

GALIAN == <<"1", ".", "1", " ", "G", "A", "L", "I", "A", "N">>

Instants == 0..MaxTick

\* --- session: overdue tasks and upcoming deadlines -----------------------
SessionEnds ==
    {NaT} \cup {<<Midnight(d)>> : d \in 0..(MaxDay + UpcomingDays + 1)}
          \cup {<<Midnight(1) + 1>>}

SessionRows ==
    {Row(PROJECT_1_A, GALIAN, s, <<Midnight(0)>>, e, Q(1, 2), I(1), NA) :
        s \in {SELESAI, TUNDA}, e \in SessionEnds}

Init ==
    /\ uploaded_file \in Tables(RequiredColumns, SessionRows, MaxRows)
    /\ now = 0
    /\ pc = "uploaded"
    /\ original_df = NoDf
    /\ view = NoView
    /\ ret = NoRet
    /\ score_cache = NoCache
    /\ session_state = AdminSession
    /\ script = "app"

Next == Run \/ Tick

Spec == Init /\ [][Next]_vars

\* --- S-curve -------------------------------------------------------------
SCurveRows ==
    {Row(PROJECT_1_A, GALIAN, TUNDA, <<Midnight(d[1])>>, <<Midnight(d[2])>>, c, b, NA) :
        d \in {<<0, 0>>, <<0, 2 * WeekDays>>, <<WeekDays, 2 * WeekDays>>},
        c \in {Q(1, 2), I(1)}, b \in {I(1), I(2)}}
    \cup {Row(PROJECT_1_A, GALIAN, TUNDA, <<Midnight(WeekDays)>>, <<Midnight(0)>>,
               I(1), I(1), NA),
           Row(PROJECT_1_A, GALIAN, TUNDA, <<Midnight(0)>>, <<Midnight(2 * WeekDays)>>,
               I(0), I(1), NA),
           Row(PROJECT_1_A, GALIAN, TUNDA, <<Midnight(0)>>, <<Midnight(0)>>,
               I(1), I(0), NA),
           Row(PROJECT_1_A, GALIAN, TUNDA, <<Midnight(0)>>, <<Midnight(2 * WeekDays)>>,
               Q(6, 5), I(1), NA)}

SCurveInstants ==
    {Midnight(d) : d \in {0, 4, WeekDays, 2 * WeekDays + 1}}

InitSCurve ==
    /\ uploaded_file \in Tables(RequiredColumns, SCurveRows, MaxRows)
    /\ now \in SCurveInstants
    /\ pc = "uploaded"
    /\ original_df = NoDf
    /\ view = NoView
    /\ ret = NoRet
    /\ score_cache = NoCache
    /\ session_state = AdminSession
    /\ script = "app"

SpecSCurve == InitSCurve /\ [][Run]_vars

\* --- weighted progress ---------------------------------------------------
WeightedRows ==
    {Row(PROJECT_1_A, GALIAN, TUNDA, <<Midnight(0)>>, <<Midnight(1)>>, c, b, NA) :
        c \in {I(0), Q(1, 2), I(100)}, b \in {I(0), I(1), I(2)}}
    \cup {Row(PROJECT_1_B, GALIAN, TUNDA, <<Midnight(0)>>, <<Midnight(1)>>, c, c, NA) :
        c \in {I(0), I(1)}}

InitWeighted ==
    /\ uploaded_file \in Tables(RequiredColumns, WeightedRows, MaxProjectRows)
    /\ now = 0
    /\ pc = "uploaded"
    /\ original_df = NoDf
    /\ view = NoView
    /\ ret = NoRet
    /\ score_cache = NoCache
    /\ session_state = AdminSession
    /\ script = "app"

SpecWeighted == InitWeighted /\ [][Run]_vars

\* --- load_data -----------------------------------------------------------
RawCompletes ==
    {NaN, Q(-1, 2), I(0), Q(1, 200), Q(1, 2), I(1), Q(3, 2), I(50), I(100), I(150)}

LoadRows ==
    {Row(PROJECT_1_A, GALIAN, TUNDA, <<Midnight(0)>>, <<Midnight(1)>>, c, I(1), NA) :
        c \in RawCompletes}

\* rows whose dates are present, missing or unparseable
DateRows ==
    {Row(PROJECT_1_A, GALIAN, TUNDA, s, e, Q(1, 2), I(1), NA) :
        s \in {NaT, BadDate, <<Midnight(0)>>},
        e \in {NaT, BadDate, <<Midnight(1)>>}}

InitLoad ==
    /\ \/ \E drop \in SUBSET RequiredColumns :
            /\ uploaded_file \in Tables(RequiredColumns \ drop, LoadRows, MaxRows)
            /\ "% COMPLETE" \in drop =>
                   \A i \in 1..Len(uploaded_file.rows) :
                       uploaded_file.rows[i].COMPLETE = I(0)
       \/ uploaded_file \in Tables(RequiredColumns, DateRows, MaxRows)
       \/ uploaded_file \in
            Tables(RequiredColumns \cup {"IS_MILESTONE"},
                   {WithExplicit(r, 0, 1, FALSE, <<>>) : r \in DateRows}, MaxRows)
    /\ now = 1
    /\ pc = "call_load_data"
    /\ original_df = NoDf
    /\ view = NoView
    /\ ret = NoRet
    /\ score_cache = NoCache
    /\ session_state = AdminSession
    /\ script = "app"

SpecLoad == InitLoad /\ [][ApplyLoadData]_vars

\* --- load_data with optional columns supplied ----------------------------
OptionalColumns == {"TASK_ID", "TASK_LEVEL", "IS_MILESTONE", "PREDECESSORS"}

\* rows whose supplied optional values differ from what load_data would
\* infer (level 2 from the numbering, milestone from the one-day duration,
\* identifiers 0, 1, ...)
ExplicitRows ==
    {WithExplicit(Row(PROJECT_1_A, GALIAN, TUNDA, <<Midnight(s)>>,
                      <<Midnight(s + 1)>>, Q(1, 2), I(1), NA),
                  x[1], x[2], x[3], x[4]) :
        s \in {0, 1},
        x \in {<<7, 1, FALSE, <<>> >>, <<8, 5, TRUE, <<7>> >>,
               <<7, 5, FALSE, <<99>> >>}}

InitExplicit ==
    /\ \E supplied \in SUBSET OptionalColumns :
         uploaded_file \in
            Tables(RequiredColumns \cup supplied, ExplicitRows, MaxRows)
    /\ now = 1
    /\ pc = "call_load_data"
    /\ original_df = NoDf
    /\ view = NoView
    /\ ret = NoRet
    /\ score_cache = NoCache
    /\ session_state = AdminSession
    /\ script = "app"

SpecExplicit == InitExplicit /\ [][ApplyLoadData]_vars

\* --- load_data: dependency chains -----------------------------------------
ChainRows ==
    {Row(k, GALIAN, TUNDA, s, <<Midnight(MaxDay)>>, Q(1, 2), I(1), NA) :
        k \in {PROJECT_1_A, PROJECT_1_B},
        s \in {NaT} \cup {<<Midnight(d)>> : d \in 0..2}}

\* tables without a TASK_ID column, and the same tables with a TASK_ID
\* column of distinct identifiers that differ from the synthetic ones
InitChain ==
    /\ \E t \in Tables(RequiredColumns, ChainRows, MaxProjectRows) :
          \/ uploaded_file = t
          \/ uploaded_file =
                [sheet |-> t.sheet, cols |-> t.cols \cup {"TASK_ID"},
                 rows |-> [i \in 1..Len(t.rows) |->
                             WithExplicit(t.rows[i], 10 - i, 1, FALSE, <<>>)]]
    /\ now = 1
    /\ pc = "call_load_data"
    /\ original_df = NoDf
    /\ view = NoView
    /\ ret = NoRet
    /\ score_cache = NoCache
    /\ session_state = AdminSession
    /\ script = "app"

SpecChain == InitChain /\ [][ApplyLoadData]_vars

\* --- clean_text -----------------------------------------------------------
MaxLen == 4

\* lower and upper case, a digit, two kinds of whitespace, an accented
\* letter, a compatibility space and a character without ASCII counterpart
TextChars == {"a", "B", "1", " ", "\t", "e_acute", "nbsp", "emoji"}

Texts == {NA} \cup UNION {[1..k -> TextChars] : k \in 0..MaxLen}

InitCleanText ==
    /\ uploaded_file \in
          {[sheet |-> BaseDataSheet, cols |-> RequiredColumns,
            rows |-> <<Row(x, GALIAN, NA, NaT, NaT, I(0), I(1), NA)>>] : x \in Texts}
    /\ now = 0
    /\ pc = "call_clean_text"
    /\ original_df = NoDf
    /\ view = NoView
    /\ ret = NoRet
    /\ score_cache = NoCache
    /\ session_state = AdminSession
    /\ script = "app"

SpecCleanText == InitCleanText /\ [][ApplyCleanText]_vars

\* --- load_data: task level ------------------------------------------------
\* task descriptions over digits, the dot, a letter and the space
InitLevel ==
    /\ uploaded_file \in
          {[sheet |-> BaseDataSheet, cols |-> RequiredColumns,
            rows |-> <<Row(PROJECT_1_A, x, TUNDA, <<Midnight(0)>>, <<Midnight(1)>>,
                           Q(1, 2), I(1), NA)>>] :
             x \in {NA} \cup UNION {[1..k -> {"1", "2", ".", "a", " "}] : k \in 0..MaxLen}}
    /\ now = 1
    /\ pc = "call_load_data"
    /\ original_df = NoDf
    /\ view = NoView
    /\ ret = NoRet
    /\ score_cache = NoCache
    /\ session_state = AdminSession
    /\ script = "app"

SpecLevel == InitLevel /\ [][ApplyLoadData]_vars

\* --- load, export, load --------------------------------------------------
PROJECT_1_A_RAW == <<" ", "p", "r", "o", "j", "e", "c", "t", " ", "1", " ", "a">>

RoundTripRows ==
    {Row(k, GALIAN, s, <<Midnight(0)>>, <<Midnight(1)>>, c, I(1), NA) :
        k \in {PROJECT_1_A_RAW, PROJECT_1_B}, s \in {NA, TUNDA},
        c \in {I(0), Q(1, 200), Q(1, 2), I(1), I(50), I(100)}}

InitRoundTrip ==
    /\ uploaded_file \in Tables(RequiredColumns, RoundTripRows, MaxRows)
    /\ now = 1
    /\ pc = "call_round_trip"
    /\ original_df = NoDf
    /\ view = NoView
    /\ ret = NoRet
    /\ score_cache = NoCache
    /\ session_state = AdminSession
    /\ script = "app"

SpecRoundTrip == InitRoundTrip /\ [][ApplyRoundTrip]_vars

\* --- calculate_planned_progress ------------------------------------------
DateCells == {NaT} \cup {<<t>> : t \in Instants}

InitPlanned ==
    /\ uploaded_file \in
          Tables(RequiredColumns,
                 {Row(PROJECT_1_A, GALIAN, TUNDA, s, e, Q(1, 2), I(1), NA) :
                     s \in DateCells, e \in DateCells}, 1)
    /\ now \in Instants
    /\ pc = "call_planned_progress"
    /\ original_df = NoDf
    /\ view = NoView
    /\ ret = NoRet
    /\ score_cache = NoCache
    /\ session_state = AdminSession
    /\ script = "app"

SpecPlanned == InitPlanned /\ [][ApplyPlannedProgress]_vars

\* --- calculate_priority_score --------------------------------------------
PriorityRows ==
    {Row(PROJECT_1_A, GALIAN, s, <<Midnight(0)>>, e, c, b, NA) :
        s \in {TUNDA, DALAM_PROSES, BELUM_MULAI, SELESAI, EmptyText},
        e \in {NaT} \cup {<<Midnight(d)>> : d \in {0, 2, 5, 200}},
        c \in {NaN, I(0), Q(1, 2), I(1), I(100), I(150)},
        b \in {NaN, I(-1), I(0), I(1), I(10), I(50)}}

\* rows whose deadline cell cannot be parsed; load_data lets them through
\* when the table supplies IS_MILESTONE
BadDeadlineRows ==
    {WithExplicit(Row(PROJECT_1_A, GALIAN, s, <<Midnight(0)>>, BadDate, c, b, NA),
                  0, 1, FALSE, <<>>) :
        s \in {TUNDA, SELESAI}, c \in {I(0), Q(1, 2)}, b \in {I(0), I(1)}}

\* the columns calculate_priority_score reads
ScoreColumns == {"PLAN END", "BOBOT", "STATUS", "% COMPLETE"}

InitPriority ==
    /\ \/ uploaded_file \in Tables(RequiredColumns, PriorityRows, 1)
       \/ uploaded_file \in Tables(RequiredColumns \cup {"IS_MILESTONE"},
                                   BadDeadlineRows, 1)
       \/ \E col \in ScoreColumns :
            uploaded_file \in
                Tables(RequiredColumns \ {col},
                       {Row(PROJECT_1_A, GALIAN, TUNDA, <<Midnight(0)>>,
                            <<Midnight(2)>>, I(0), I(1), NA)}, 1)
    /\ now \in Instants
    /\ pc = "call_priority_score"
    /\ original_df = NoDf
    /\ view = NoView
    /\ ret = NoRet
    /\ score_cache = NoCache
    /\ session_state = AdminSession
    /\ script = "app"

SpecPriority == InitPriority /\ [][ApplyPriorityScore]_vars

\* --- extract_zone_progress -----------------------------------------------
POND_AREA == ZONE_TO_ID_MAP[5]
GREEN_AREA == ZONE_TO_ID_MAP[4]
KOLAM == <<"2", " ", "K", "o", "l", "a", "m">>
OFFICE_BLOCK_1C ==
    <<"O", "F", "F", "I", "C", "E", " ", "B", "L", "O", "C", "K", " ", "1", "C">>

ZoneRows(areas) ==
    {Row(PROJECT_1_A, j, TUNDA, <<Midnight(0)>>, <<Midnight(1)>>, c, b, a) :
        j \in {GALIAN, KOLAM, OFFICE_BLOCK_1C}, a \in areas,
        c \in {I(0), Q(1, 2)}, b \in {I(0), I(1)}}

InitZone ==
    /\ \/ uploaded_file \in
            Tables(RequiredColumns \cup {"AREA PEKERJAAN"},
                   ZoneRows({NA, POND_AREA, GREEN_AREA, Lower(POND_AREA)}), MaxRows)
       \/ uploaded_file \in Tables(RequiredColumns, ZoneRows({NA}), MaxRows)
    /\ now = 1
    /\ pc = "call_zone_progress"
    /\ original_df = NoDf
    /\ view = NoView
    /\ ret = NoRet
    /\ score_cache = NoCache
    /\ session_state = AdminSession
    /\ script = "app"

SpecZone == InitZone /\ [][ApplyZoneProgress]_vars

\* --- sidebar filters -------------------------------------------------------
InitFilter ==
    /\ uploaded_file \in
          Tables(RequiredColumns \cup {"AREA PEKERJAAN"},
                 {Row(k, GALIAN, TUNDA, <<Midnight(0)>>, <<Midnight(1)>>, c, I(1), a) :
                     k \in {PROJECT_1_A, PROJECT_1_B}, c \in {Q(1, 2), I(1)},
                     a \in {NA, ALL, POND_AREA, Lower(POND_AREA)}}, MaxRows)
    /\ now = 1
    /\ pc = "call_sidebar_filter"
    /\ original_df = NoDf
    /\ view = NoView
    /\ ret = NoRet
    /\ score_cache = NoCache
    /\ session_state = AdminSession
    /\ script = "app"

SpecFilter == InitFilter /\ [][ApplySidebarFilter]_vars

\* --- sessions of both entry points: login, filter buttons, logout
SessionProjectRows ==
    {Row(k, GALIAN, TUNDA, s, <<Midnight(1)>>, Q(1, 2), I(1), NA) :
        k \in {PROJECT_1_A, PROJECT_1_B}, s \in {<<Midnight(0)>>, NaT}}

InitSession ==
    /\ uploaded_file \in Tables(RequiredColumns, SessionProjectRows, MaxRows)
    /\ now = 0
    /\ pc = "start"
    /\ original_df = NoDf
    /\ view = NoView
    /\ ret = NoRet
    /\ score_cache = NoCache
    /\ session_state = EmptySession
    /\ script \in {"app", "modular"}

NextSession ==
    \/ Run
    \/ Login
    \/ Logout
    \/ \E f \in {"all", "p1a", "p1b"} : set_filter(f)

SpecSession == InitSession /\ [][NextSession]_vars

(***************************************************************************)
(* Properties                                                              *)
(***************************************************************************)
\* the script has run and the S-curve section was rendered
SCurveRendered == view # NoView /\ "scurve" \in view[1].sections

\* the raw samples behind the rendered S-curve
RawSamples ==
    progress_data(timeline_rows(original_df[1], "all"),
                  HasCol(original_df[1], "BOBOT"), DateOf(now))

\* C1: in the published S-curve both the Planned and the Actual series are
\* non-decreasing: the value at a period is >= the value at every earlier
\* period, for any table and any as-of date.
C1_SCurveNonDecreasing ==
    SCurveRendered =>
        LET curve == view[1].progress_df
        IN  \A j \in 1..Len(curve) : \A k \in j..Len(curve) :
                /\ RGe(curve[k].Planned, curve[j].Planned)
                /\ RGe(curve[k].Actual, curve[j].Actual)

\* a rendered S-curve whose raw samples drop, in both series, from one
\* period to the next
C1_Witness ==
    /\ SCurveRendered
    /\ \E k \in 1..(Len(RawSamples) - 1) :
          /\ RLt(RawSamples[k + 1].Planned, RawSamples[k].Planned)
          /\ RLt(RawSamples[k + 1].Actual, RawSamples[k].Actual)

\* the periods of the rendered S-curve that are not after the as-of date
PeriodsUpToToday ==
    {k \in 1..Len(view[1].progress_df) :
        view[1].progress_df[k].Date <= DateOf(now)}

\* the latest of them (the periods are in ascending order)
LatestPeriod == CHOOSE k \in PeriodsUpToToday : \A j \in PeriodsUpToToday : j <= k

\* C7: SPI is actual / planned at the latest S-curve period <= asOf, 0 when
\* planned is 0 at that period or when no period is <= asOf; so SPI is
\* exactly 1 when actual equals planned and planned > 0 at that period.
C7_SPI ==
    SCurveRendered =>
        LET spi == view[1].earned[1].spi
        IN  IF PeriodsUpToToday = {} THEN spi = I(0)
            ELSE LET planned == view[1].progress_df[LatestPeriod].Planned
                     actual == view[1].progress_df[LatestPeriod].Actual
                 IN  /\ RGe(planned, I(0))
                     /\ planned = I(0) => spi = I(0)
                     /\ RGt(planned, I(0)) => spi = RDiv(actual, planned)
                     /\ (RGt(planned, I(0)) /\ actual = planned) => spi = I(1)

\* the as-of date falls after the second period or later, where actual
\* equals planned > 0 although the two differed at the first period
C7_Witness ==
    /\ SCurveRendered
    /\ PeriodsUpToToday # {}
    /\ LatestPeriod > 1
    /\ LET curve == view[1].progress_df
       IN  /\ curve[LatestPeriod].Actual = curve[LatestPeriod].Planned
           /\ RGt(curve[LatestPeriod].Planned, I(0))
           /\ curve[1].Actual # curve[1].Planned
           /\ RGt(curve[1].Planned, I(0))
    /\ view[1].earned[1].spi = I(1)

\* a function under test has returned
Returned == pc = "returned"

\* C2: calculate_priority_score is in [0,100] for every row load_data lets
\* through, also when the completion is above 100 or the weight is
\* negative or missing: never below 0, never above 100.
C2_ScoreInRange ==
    Returned => RGe(ret[1], I(0)) /\ RLe(ret[1], I(100))

\* the rows of the loaded table that the late-task filter must keep at the
\* instant asOf
LateRows(asOf) ==
    {i \in 1..Len(original_df[1].rows) :
        LET r == original_df[1].rows[i]
        IN  ~IsNaT(r.PLAN_END) /\ r.PLAN_END[1] < asOf /\ r.STATUS # SELESAI}

\* C3: the late-task subset at the instant asOf is exactly the rows with
\* planned-end < asOf and status other than SELESAI; each row's LATE DAYS
\* is asOf - planned-end in whole days and is >= 1, never 0, whatever the
\* time of day of asOf.
C3_LateTasks ==
    (view # NoView /\ "late" \in view[1].sections) =>
        LET late_df == view[1].late_df
            asOf == view[1].today
        IN  /\ {late_df[k].row : k \in 1..Len(late_df)} = LateRows(asOf)
            /\ \A k \in 1..Len(late_df) :
                  LET end == original_df[1].rows[late_df[k].row].PLAN_END[1]
                  IN  /\ late_df[k].LATE_DAYS = (asOf - end) \div TicksPerDay
                      /\ late_df[k].LATE_DAYS >= 1

\* C4: for a zero-length task (start = planned-end) calculate_planned_progress
\* is 50 as of the start/end date itself and 100 as of any later date.
C4_ZeroLength ==
    LET r == uploaded_file.rows[1]
    IN  (Returned /\ ~IsNaT(r.START) /\ r.START = r.PLAN_END) =>
            /\ DateOf(now) = DateOf(r.START[1]) => ret[1] = I(50)
            /\ DateOf(now) > DateOf(r.START[1]) => ret[1] = I(100)

\* load_data has returned a table that has a % COMPLETE column
LoadedComplete ==
    Returned /\ ret[1].ok /\ HasCol(uploaded_file, "% COMPLETE")

\* C5: after load, a raw completion <= 1 is multiplied by 100 and a raw
\* completion > 1 is unchanged, so a raw value that is a valid fraction
\* (0..1) or a valid percentage (above 1 up to 100) ends in [0,100].
C5_LoadRescale ==
    LoadedComplete =>
        \A i \in 1..Len(uploaded_file.rows) :
            LET raw == uploaded_file.rows[i].COMPLETE
                out == ret[1].df.rows[i].COMPLETE
            IN  /\ RLe(raw, I(1)) => out = RMul(raw, I(100))
                /\ RGt(raw, I(1)) => out = raw
                /\ (RGe(raw, I(0)) /\ RLe(raw, I(100))) =>
                        (RGe(out, I(0)) /\ RLe(out, I(100)))

\* a loaded table with a fraction that was multiplied (1 became 100) next
\* to a percentage that was left alone
C5_Witness ==
    /\ LoadedComplete
    /\ Len(uploaded_file.rows) = 2
    /\ uploaded_file.rows[1].COMPLETE = I(1)
    /\ ret[1].df.rows[1].COMPLETE = I(100)
    /\ uploaded_file.rows[2].COMPLETE = Q(3, 2)
    /\ ret[1].df.rows[2].COMPLETE = Q(3, 2)

\* the rows of the loaded table that belong to the zone z: by their
\* AREA PEKERJAAN cell when the column exists, else by keyword
ZoneMatches(z) ==
    {i \in 1..Len(original_df[1].rows) :
        IF HasCol(original_df[1], "AREA PEKERJAAN")
        THEN original_df[1].rows[i].AREA = z
        ELSE map_to_zone(original_df[1].rows[i].JENIS) = z}

\* C6: with or without an AREA PEKERJAAN column, the mapping returned by
\* extract_zone_progress contains every known zone, and a known zone that
\* no task matches is present with value 0.
C6_AllZonesPresent ==
    Returned =>
        \A z \in KnownZones :
            /\ z \in DOMAIN ret[1]
            /\ ZoneMatches(z) = {} => ret[1][z] = I(0)

\* the rows of a project in the loaded table, ascending
ProjectIdx(project) ==
    AscSeq({i \in 1..Len(original_df[1].rows) :
                original_df[1].rows[i].KONTRAK = project})

\* sum(weight x completion) and sum(weight) over a project's rows
SumWeighted(project) ==
    SumSkipNa([k \in 1..Len(ProjectIdx(project)) |->
        RMul(original_df[1].rows[ProjectIdx(project)[k]].BOBOT,
             original_df[1].rows[ProjectIdx(project)[k]].COMPLETE)])

SumWeight(project) ==
    SumSkipNa([k \in 1..Len(ProjectIdx(project)) |->
        original_df[1].rows[ProjectIdx(project)[k]].BOBOT])

SumComplete(project) ==
    SumSkipNa([k \in 1..Len(ProjectIdx(project)) |->
        original_df[1].rows[ProjectIdx(project)[k]].COMPLETE])

\* all weights of the project's rows are equal and positive
EqualPositiveWeights(project) ==
    \A j, k \in 1..Len(ProjectIdx(project)) :
        /\ original_df[1].rows[ProjectIdx(project)[j]].BOBOT
              = original_df[1].rows[ProjectIdx(project)[k]].BOBOT
        /\ RGt(original_df[1].rows[ProjectIdx(project)[k]].BOBOT, I(0))

\* C8: the weighted progress of a task subset is
\* sum(weight x completion) / sum(weight), and 0 when the total weight is 0;
\* so it is the simple mean of completion when all weights are equal and
\* positive (weights 1/1/2 with completions 100/50/0 give 37.5).
C8_WeightedProgress ==
    view # NoView =>
        \A p \in 1..2 :
            LET project == <<PROJECT_1_A, PROJECT_1_B>>[p]
                n == Len(ProjectIdx(project))
            IN  n > 0 =>
                  /\ view[1].progress[p] =
                        <<IF SumWeight(project) = I(0) THEN I(0)
                          ELSE RDiv(SumWeighted(project), SumWeight(project))>>
                  /\ EqualPositiveWeights(project) =>
                        view[1].progress[p] = <<RDiv(SumComplete(project), I(n))>>

\* the table with weights 1/1/2 and completions 100/50/0: 37.5
C8_Witness ==
    /\ view # NoView
    /\ Len(original_df[1].rows) = 3
    /\ \A i \in 1..3 : original_df[1].rows[i].KONTRAK = PROJECT_1_A
    /\ [i \in 1..3 |-> original_df[1].rows[i].BOBOT] = <<I(1), I(1), I(2)>>
    /\ [i \in 1..3 |-> original_df[1].rows[i].COMPLETE] = <<I(100), I(50), I(0)>>
    /\ view[1].progress[1] = <<Q(75, 2)>>

\* C9: the Upcoming Deadlines count is the number of tasks, of any status,
\* whose planned-end date falls within [today, today + 7]: a task due today
\* is counted at any time of day, a task due on today + 8 never.
C9_Upcoming ==
    view # NoView =>
        LET today_date == DateOf(view[1].today)
        IN  view[1].upcoming =
                Cardinality({i \in 1..Len(original_df[1].rows) :
                    LET end == original_df[1].rows[i].PLAN_END
                    IN  /\ ~IsNaT(end)
                        /\ today_date <= DateOf(end[1])
                        /\ DateOf(end[1]) <= today_date + UpcomingDays})

\* C10: when the raw table lacks a required column, load_data aborts with a
\* SchemaError that names the missing columns; it never returns an
\* enriched table for such an input.
C10_SchemaError ==
    (Returned /\ ~(RequiredColumns \subseteq uploaded_file.cols)) =>
        /\ ~ret[1].ok
        /\ ret[1].error = "SchemaError"
        /\ ret[1].missing = RequiredColumns \ uploaded_file.cols

\* the loaded row that was scored
ScoredRow == original_df[1].rows[1]

\* the scoring met a missing column, a missing weight or completion cell,
\* or a deadline that is missing or cannot be parsed
ScoringMetBadInput ==
    \/ ~(ScoreColumns \subseteq original_df[1].cols)
    \/ IsNaN(ScoredRow.BOBOT)
    \/ IsNaN(ScoredRow.COMPLETE)
    \/ IsNaT(to_datetime_coerce(ScoredRow.PLAN_END))

\* C11: whenever scoring a row meets a missing field or a missing or
\* unparseable deadline, calculate_priority_score returns the neutral
\* default 50 (and raises nothing).
C11_NeutralDefault ==
    (Returned /\ ScoringMetBadInput) => ret[1] = I(50)

\* the rows of the uploaded table with a date cell that cannot be parsed
BadDateRowsOf(file) ==
    {i \in 1..Len(file.rows) :
        BadDate \in {file.rows[i].START, file.rows[i].PLAN_END}}

\* C12: during load a row with an unparseable start or planned-end date
\* does not make the load fail: the row stays in the enriched table and is
\* left out of the date-dependent results (no duration, no milestone flag,
\* planned progress 0).
C12_BadDateTolerated ==
    (Returned /\ RequiredColumns \subseteq uploaded_file.cols
              /\ BadDateRowsOf(uploaded_file) # {}) =>
        /\ ret[1].ok
        /\ Len(ret[1].df.rows) = Len(uploaded_file.rows)
        /\ \A i \in BadDateRowsOf(uploaded_file) :
              /\ ~HasCol(uploaded_file, "IS_MILESTONE") =>
                    (IsNaN(ret[1].df.rows[i].DURATION)
                        /\ ~ret[1].df.rows[i].IS_MILESTONE)
              /\ ret[1].df.rows[i].PLAN_PROGRESS = I(0)

\* load_data has returned a table
Loaded == Returned /\ ret[1].ok

\* C13: when the raw table already has a TASK_ID, TASK_LEVEL, IS_MILESTONE
\* or PREDECESSORS column, load_data leaves every value of that column as
\* supplied and puts no inferred or synthetic value in its place.
C13_ExplicitPreserved ==
    Loaded =>
        \A i \in 1..Len(uploaded_file.rows) :
            LET raw == uploaded_file.rows[i]
                out == ret[1].df.rows[i]
            IN  /\ HasCol(uploaded_file, "TASK_ID") => out.TASK_ID = raw.TASK_ID
                /\ HasCol(uploaded_file, "TASK_LEVEL") =>
                        out.TASK_LEVEL = raw.TASK_LEVEL
                /\ HasCol(uploaded_file, "IS_MILESTONE") =>
                        out.IS_MILESTONE = raw.IS_MILESTONE
                /\ HasCol(uploaded_file, "PREDECESSORS") =>
                        out.PREDECESSORS = raw.PREDECESSORS

\* a loaded table that supplies all four columns with values that differ
\* from the inferred ones: identifier 8 in the first row (synthetic 0),
\* level 5 (inferred 2), a dangling predecessor 99 in the second row
C13_Witness ==
    /\ Loaded
    /\ OptionalColumns \subseteq uploaded_file.cols
    /\ Len(uploaded_file.rows) = 2
    /\ ret[1].df.rows[1].TASK_ID = 8
    /\ ret[1].df.rows[1].TASK_LEVEL = 5
    /\ ret[1].df.rows[1].IS_MILESTONE
    /\ ret[1].df.rows[2].IS_MILESTONE = FALSE
    /\ ret[1].df.rows[2].PREDECESSORS = <<99>>
    /\ "DURATION" \notin ret[1].df.cols

\* C14: loading a table, exporting the loaded table and loading the export
\* again preserves the row count and every explicit field: each row's
\* completion percentage, project id, task description and status (and
\* dates and weight) after the second load equal those after the first.
C14_RoundTrip ==
    Returned =>
        /\ ret[1].second.ok
        /\ Len(ret[1].second.df.rows) = Len(original_df[1].rows)
        /\ \A i \in 1..Len(original_df[1].rows) :
              LET a == original_df[1].rows[i]
                  b == ret[1].second.df.rows[i]
              IN  /\ b.COMPLETE = a.COMPLETE
                  /\ b.KONTRAK = a.KONTRAK
                  /\ b.JENIS = a.JENIS
                  /\ b.STATUS = a.STATUS
                  /\ b.START = a.START
                  /\ b.PLAN_END = a.PLAN_END
                  /\ b.BOBOT = a.BOBOT

\* C15: no computation of a render pass mutates the enriched table: the
\* table the pass received from load_data has the same columns and the
\* same cell values when the pass ends.
C15_TableNotMutated ==
    view # NoView => view[1].original_df = original_df[1]

\* C16: on every render pass the planned progress and the priority score
\* are those computed from that pass's current date: a value computed on an
\* earlier pass is never shown once the date has changed.
C16_RecomputedEachPass ==
    view # NoView =>
        LET df == original_df[1]
            today == view[1].today
        IN  /\ \A i \in 1..Len(df.rows) :
                  df.rows[i].PLAN_PROGRESS =
                      calculate_planned_progress(df.rows[i], df.cols, today)
            /\ "priority" \in view[1].sections =>
                  \A k \in 1..Len(view[1].priority) :
                      view[1].priority[k].PRIORITY_SCORE =
                          calculate_priority_score(df.rows[view[1].priority[k].row],
                                                   df.cols, today)

WithoutWhitespace(s) == SelectSeq(s, LAMBDA c : c \notin Whitespace)

\* C17: clean_text never fails; a null gives the empty string; any other
\* text gives its upper-case ASCII form (diacritics removed) without
\* leading or trailing whitespace and with every whitespace run collapsed
\* to one space; the copy in utils.py gives the same result as app.py's.
C17_CleanText ==
    (pc = "returned" /\ ret # NoRet /\ "app" \in DOMAIN ret[1]) =>
        LET x == uploaded_file.rows[1].KONTRAK
            y == ret[1].app
        IN  /\ ret[1].utils = y
            /\ x = NA => y = EmptyText
            /\ \A i \in 1..Len(y) :
                  y[i] \in SeqRange(UpperLetters) \cup Digits \cup Punctuation \cup {" "}
            /\ y # <<>> => (y[1] # " " /\ y[Len(y)] # " ")
            /\ \A i \in 1..(Len(y) - 1) : ~(y[i] = " " /\ y[i + 1] = " ")
            /\ x # NA => WithoutWhitespace(y) =
                             WithoutWhitespace(Upper(NormalizeAscii(x)))
            /\ clean_text(y) = y

C17_Witness ==
    /\ pc = "returned"
    /\ uploaded_file.rows[1].KONTRAK = <<"e_acute", " ", "\t", "a">>
    /\ ret[1].app = <<"E", " ", "A">>
    /\ ret[1].utils = <<"E", " ", "A">>

\* C18: with an explicit area column extract_zone_progress groups the tasks
\* by the normalized area value: labels that differ only in letter case,
\* accents or whitespace are one zone, and each zone's value is the
\* weighted mean of completion over all tasks whose normalized label is
\* the zone's (the simple mean when their total weight is 0).
C18_NormalizedGroups ==
    (Returned /\ HasCol(original_df[1], "AREA PEKERJAAN")) =>
        LET df == original_df[1]
            n == Len(df.rows)
            zone_rows(z) == {i \in 1..n : /\ df.rows[i].AREA # NA
                                          /\ clean_text(df.rows[i].AREA) = clean_text(z)}
        IN  /\ \A i \in 1..n : df.rows[i].AREA # NA =>
                  \E z \in DOMAIN ret[1] : i \in zone_rows(z)
            /\ \A z1, z2 \in DOMAIN ret[1] :
                  clean_text(z1) = clean_text(z2) => z1 = z2
            /\ \A z \in DOMAIN ret[1] :
                  ret[1][z] = group_progress(df, AscSeq(zone_rows(z)))

ProjectMembers(p) ==
    {i \in 1..Len(ret[1].df.rows) : ret[1].df.rows[i].KONTRAK = p}

\* the position of a row's start date in the order of start dates, a
\* missing start date last
StartKey(i) ==
    IF IsNaT(ret[1].df.rows[i].START) THEN MaxTick + 1
    ELSE ret[1].df.rows[i].START[1]

\* the orders of project p's tasks by start date
StartOrders(p) ==
    {ord \in [1..Cardinality(ProjectMembers(p)) -> ProjectMembers(p)] :
        /\ \A a, b \in DOMAIN ord : a # b => ord[a] # ord[b]
        /\ \A a \in DOMAIN ord : a + 1 \in DOMAIN ord =>
              StartKey(ord[a]) <= StartKey(ord[a + 1])}

RECURSIVE DigitRunEnd(_, _)
\* the position after the run of digits of x that starts at position i
DigitRunEnd(x, i) ==
    IF i <= Len(x) /\ x[i] \in Digits THEN DigitRunEnd(x, i + 1) ELSE i

RECURSIVE PatternCount(_, _)
\* the number of dot-separated numbers of the dotted-number pattern of x
\* that starts with the number at position i
PatternCount(x, i) ==
    LET j == DigitRunEnd(x, i)
    IN  IF j + 1 <= Len(x) /\ x[j] = "." /\ x[j + 1] \in Digits
        THEN 1 + PatternCount(x, j + 1)
        ELSE 1

\* C21: without a TASK_LEVEL column the inferred level of a row is the
\* number of dot-separated numbers in the leading dotted-number pattern of
\* its task description, whatever text or dots follow the pattern, and 1
\* for a description that does not begin with a number.
C21_LeadingPatternLevel ==
    (Loaded /\ ~HasCol(uploaded_file, "TASK_LEVEL")) =>
        LET x == ret[1].df.rows[1].JENIS
        IN  ret[1].df.rows[1].TASK_LEVEL =
                IF x # <<>> /\ x[1] \in Digits THEN PatternCount(x, 1) ELSE 1

\* the value the statement of C22 gives for a period: 100 x the weighted
\* sum of the fractions over the total weight W of all timeline tasks with
\* positive weight, a task not started by the period having fraction 0
WeightedShare(fraction(_, _), period) ==
    LET tl == timeline_rows(original_df[1], "all")
        positive == AscSeq({k \in 1..Len(tl) :
                        HasCol(original_df[1], "BOBOT") /\ RGt(tl[k].BOBOT, I(0))})
        W == SumSkipNa([k \in 1..Len(positive) |-> tl[positive[k]].BOBOT])
        total == SumSkipNa([k \in 1..Len(positive) |->
                    IF DateOf(tl[positive[k]].START[1]) > period THEN I(0)
                    ELSE RMul(fraction(tl, positive[k]), tl[positive[k]].BOBOT)])
    IN  IF RGt(W, I(0)) THEN RMul(RDiv(total, W), I(100)) ELSE I(0)

\* C22: for every period of the S-curve the planned and the actual value
\* are 100 x sum(weight x fraction) / W with W the total weight of all
\* tasks with positive weight: a task not started by the period has
\* fraction 0 and its weight still counts in W; both are 0 when W is 0.
C22_ShareOfTotalWeight ==
    SCurveRendered =>
        \A k \in 1..Len(RawSamples) :
            LET period == RawSamples[k].Date
                planned(tl, i) == task_planned(tl[i], period)
                actual(tl, i) == task_actual(tl[i], scurve_complete(tl)[i],
                                             period, DateOf(now))
            IN  /\ RawSamples[k].Planned = WeightedShare(planned, period)
                /\ RawSamples[k].Actual = WeightedShare(actual, period)

\* C23: for every table whose loaded completion percentages are all in
\* [0, 100], every sample of both series of the S-curve is a percentage in
\* [0, 100], whatever the largest completion value of the table is.
C23_SamplesArePercentages ==
    (/\ SCurveRendered
     /\ \A i \in 1..Len(original_df[1].rows) :
           /\ RLe(I(0), original_df[1].rows[i].COMPLETE)
           /\ RLe(original_df[1].rows[i].COMPLETE, I(100))) =>
        \A k \in 1..Len(view[1].progress_df) :
            /\ RLe(I(0), view[1].progress_df[k].Planned)
            /\ RLe(view[1].progress_df[k].Planned, I(100))
            /\ RLe(I(0), view[1].progress_df[k].Actual)
            /\ RLe(view[1].progress_df[k].Actual, I(100))

\* the dated tasks of the rendered table
DatedTasks == timeline_rows(original_df[1], "all")

\* C24: for every table with at least one dated task the period list of
\* the S-curve is non-empty, starts at the minimum start date, advances by
\* exactly 7 days and holds every such date up to the maximum planned-end
\* date and none after it.
C24_WeeklyPeriods ==
    (view # NoView /\ "progress" \in view[1].sections /\ DatedTasks # <<>>) =>
        LET periods == time_periods(DatedTasks)
        IN  /\ periods # <<>>
            /\ periods[1] = min_date(DatedTasks)
            /\ \A k \in 1..(Len(periods) - 1) : periods[k + 1] = periods[k] + 7
            /\ periods[Len(periods)] <= max_date(DatedTasks)
            /\ periods[Len(periods)] + 7 > max_date(DatedTasks)

C26_FilterByEquality ==
    (Returned /\ "selected_kontrak" \in DOMAIN ret[1]) =>
        LET rows == original_df[1].rows
            sel == ret[1]
            kept == AscSeq({i \in 1..Len(rows) :
                      /\ sel.selected_kontrak = ALL \/ rows[i].KONTRAK = sel.selected_kontrak
                      /\ \/ sel.selected_filter_val = ALL
                         \/ cell(rows[i], sel.selected_filter_col) = sel.selected_filter_val})
        IN  /\ sel.df.rows = [k \in 1..Len(kept) |-> rows[kept[k]]]
            /\ sel.df.cols = original_df[1].cols
            /\ \A k \in 1..Len(sel.df.rows) : \E i \in 1..Len(rows) : sel.df.rows[k] = rows[i]
            /\ (sel.selected_kontrak = ALL /\ sel.selected_filter_val = ALL) =>
                  sel.df.rows = rows

C26_Witness ==
    /\ Returned
    /\ Len(original_df[1].rows) = 2
    /\ original_df[1].rows[1].AREA = POND_AREA
    /\ original_df[1].rows[2].AREA = Lower(POND_AREA)
    /\ original_df[1].rows[1].KONTRAK = PROJECT_1_B
    /\ original_df[1].rows[2].KONTRAK = PROJECT_1_B
    /\ ret[1].selected_kontrak = PROJECT_1_B
    /\ ret[1].selected_filter_col = "AREA PEKERJAAN"
    /\ ret[1].selected_filter_val = Lower(POND_AREA)
    /\ ret[1].df.rows = <<original_df[1].rows[2]>>

\* the loaded completion percentages of the dated rows, in table order
LoadedDatedComplete ==
    LET rows == original_df[1].rows
        dated == AscSeq({i \in 1..Len(rows) :
                    ~IsNaT(rows[i].START) /\ ~IsNaT(rows[i].PLAN_END)})
    IN  [k \in 1..Len(dated) |-> rows[dated[k]].COMPLETE]

\* C27: the completion percentage the timeline, the task details and the
\* S-curve use for a task is the task's load-time completion percentage
\* (divided by 100 for the S-curve fraction), and applying the '<= 1 means
\* fraction' rescale to a loaded value again does not change it.
C27_RescaleConsistent ==
    SCurveRendered =>
        \A k \in 1..Len(LoadedDatedComplete) :
            /\ view[1].timeline_complete[k] = LoadedDatedComplete[k]
            /\ view[1].scurve_complete[k] = RDiv(LoadedDatedComplete[k], I(100))
            /\ "details" \in view[1].sections =>
                  view[1].details_complete[k] = LoadedDatedComplete[k]
            /\ rescale_complete(LoadedDatedComplete[k]) = LoadedDatedComplete[k]

\* the session state says the user is logged in
LoggedIn == "logged_in" \in DOMAIN session_state /\ session_state.logged_in

\* the page on display is the one a finished pass rendered
PassFinished == pc \in {"login", "rendered"}

\* the step is a press of Login that authenticate rejected
FailedLogin == pc = "login" /\ "error" \in DOMAIN view'[1] /\ view'[1].error

\* C28: in both entry points logged_in becomes true only by a press of
\* Login with a username of USERS and that user's exact password; while
\* it is true the session's user is that username and its role is
\* USERS[user].role; a finished pass with logged_in false rendered the
\* login form and nothing else; a failed Login changes no session key.
C28_LoginGate ==
    [][/\ (~LoggedIn /\ LoggedIn') =>
              /\ pc = "login"
              /\ view'[1].username \in DOMAIN USERS
              /\ view'[1].password = USERS[view'[1].username].password
              /\ session_state'.user = view'[1].username
       /\ LoggedIn' =>
              /\ session_state'.user \in DOMAIN USERS
              /\ session_state'.role = USERS[session_state'.user].role
       /\ (PassFinished' /\ ~LoggedIn') => view'[1].sections = {"login"}
       /\ FailedLogin => session_state' = session_state]_vars

\* dashboard_modular shows its home page to sarah after her valid Login
C28_Witness ==
    /\ script = "modular"
    /\ pc = "rendered"
    /\ session_state = [logged_in |-> TRUE, user |-> "sarah", role |-> "editor"]
    /\ view[1].sections = {"home"}

\* the step is a press of Logout
LogoutPressed == pc = "rendered" /\ LoggedIn /\ ~LoggedIn'

\* the step is the pass that follows a press of Logout
PassAfterLogout == pc = "rerun" /\ ~LoggedIn /\ pc' # "rerun"

\* C29: in both entry points a press of Logout leaves no key of the
\* previous login (user, role, timeline project filter) in the session
\* state, and the pass that follows shows the login form.
C29_LogoutClears ==
    [][/\ LogoutPressed =>
              {"user", "role", "active_project_filter"}
                  \cap DOMAIN session_state' = {}
       /\ PassAfterLogout => view'[1].sections = {"login"}]_vars

\* the session state holds the timeline project filter
HasFilter == "active_project_filter" \in DOMAIN session_state

\* the identifiers of the dated tasks of the loaded table whose project is
\* one of K, in table order
DatedTaskIds(K) ==
    LET rows == original_df[1].rows
        idx == AscSeq({i \in 1..Len(rows) :
                  /\ ~IsNaT(rows[i].START) /\ ~IsNaT(rows[i].PLAN_END)
                  /\ rows[i].KONTRAK \in K})
    IN  [k \in 1..Len(idx) |-> rows[idx[k]].TASK_ID]

\* the identifiers of the tasks on the timeline
TimelineTaskIds ==
    [k \in 1..Len(view[1].timeline_df) |-> view[1].timeline_df[k].TASK_ID]

====
